---- MODULE Spec2Model ----
(***************************************************************************)
(* SimpleDB: the statement parser (QueryParser), the typed table (Table)   *)
(* and the engine (DatabaseEngine) of examples/database.                   *)
(*                                                                         *)
(* A std::string is a sequence of one-character strings, so that the       *)
(* tokenizer, the case folding, the quote stripping and the numeric        *)
(* conversions are computed character by character as the code does.       *)
(* Sequences are indexed from 1; the operators that mirror C++ indexing    *)
(* take the 0-based index of the source and go through Tok.                *)
(***************************************************************************)
EXTENDS Integers, Sequences, FiniteSets, TLC

(***************************************************************************)
(* Characters and std::string helpers                                      *)
(***************************************************************************)
\* The words, punctuation and operators the code compares tokens and type
\* names with, as the vectors of characters std::string holds.
Word ==
  ("create" :> <<"c", "r", "e", "a", "t", "e">>) @@
  ("table" :> <<"t", "a", "b", "l", "e">>) @@
  ("insert" :> <<"i", "n", "s", "e", "r", "t">>) @@
  ("into" :> <<"i", "n", "t", "o">>) @@
  ("values" :> <<"v", "a", "l", "u", "e", "s">>) @@
  ("select" :> <<"s", "e", "l", "e", "c", "t">>) @@
  ("from" :> <<"f", "r", "o", "m">>) @@
  ("where" :> <<"w", "h", "e", "r", "e">>) @@
  ("drop" :> <<"d", "r", "o", "p">>) @@
  ("show" :> <<"s", "h", "o", "w">>) @@
  ("tables" :> <<"t", "a", "b", "l", "e", "s">>) @@
  ("describe" :> <<"d", "e", "s", "c", "r", "i", "b", "e">>) @@
  ("desc" :> <<"d", "e", "s", "c">>) @@
  ("int" :> <<"i", "n", "t">>) @@
  ("double" :> <<"d", "o", "u", "b", "l", "e">>) @@
  ("bool" :> <<"b", "o", "o", "l">>) @@
  ("string" :> <<"s", "t", "r", "i", "n", "g">>) @@
  ("true" :> <<"t", "r", "u", "e">>) @@
  ("false" :> <<"f", "a", "l", "s", "e">>) @@
  ("exit" :> <<"e", "x", "i", "t">>) @@
  ("quit" :> <<"q", "u", "i", "t">>) @@
  ("help" :> <<"h", "e", "l", "p">>) @@
  ("info" :> <<"i", "n", "f", "o">>) @@
  ("clear" :> <<"c", "l", "e", "a", "r">>) @@
  ("(" :> <<"(">>) @@
  (")" :> <<")">>) @@
  ("," :> <<",">>) @@
  ("*" :> <<"*">>) @@
  ("<" :> <<"<">>) @@
  (">" :> <<">">>) @@
  ("=" :> <<"=">>) @@
  ("!=" :> <<"!", "=">>) @@
  ("<=" :> <<"<", "=">>) @@
  (">=" :> <<">", "=">>)

\* ::tolower on the letters A..Z; every other character is left alone.
UpperToLower ==
  "A" :> "a" @@ "B" :> "b" @@ "C" :> "c" @@ "D" :> "d" @@ "E" :> "e" @@
  "F" :> "f" @@ "G" :> "g" @@ "H" :> "h" @@ "I" :> "i" @@ "J" :> "j" @@
  "K" :> "k" @@ "L" :> "l" @@ "M" :> "m" @@ "N" :> "n" @@ "O" :> "o" @@
  "P" :> "p" @@ "Q" :> "q" @@ "R" :> "r" @@ "S" :> "s" @@ "T" :> "t" @@
  "U" :> "u" @@ "V" :> "v" @@ "W" :> "w" @@ "X" :> "x" @@ "Y" :> "y" @@
  "Z" :> "z"

\* The character codes that std::string's operator< compares.
Ascii ==
  "\t" :> 9 @@ " " :> 32 @@ "!" :> 33 @@ "\"" :> 34 @@ "'" :> 39 @@
  "(" :> 40 @@ ")" :> 41 @@ "*" :> 42 @@ "+" :> 43 @@ "," :> 44 @@
  "-" :> 45 @@ "." :> 46 @@ "0" :> 48 @@ "1" :> 49 @@ "2" :> 50 @@
  "3" :> 51 @@ "4" :> 52 @@ "5" :> 53 @@ "6" :> 54 @@ "7" :> 55 @@
  "8" :> 56 @@ "9" :> 57 @@ ";" :> 59 @@ "<" :> 60 @@ "=" :> 61 @@
  ">" :> 62 @@ "A" :> 65 @@ "B" :> 66 @@ "C" :> 67 @@ "D" :> 68 @@
  "E" :> 69 @@ "F" :> 70 @@ "G" :> 71 @@ "H" :> 72 @@ "I" :> 73 @@
  "J" :> 74 @@ "K" :> 75 @@ "L" :> 76 @@ "M" :> 77 @@ "N" :> 78 @@
  "O" :> 79 @@ "P" :> 80 @@ "Q" :> 81 @@ "R" :> 82 @@ "S" :> 83 @@
  "T" :> 84 @@ "U" :> 85 @@ "V" :> 86 @@ "W" :> 87 @@ "X" :> 88 @@
  "Y" :> 89 @@ "Z" :> 90 @@ "_" :> 95 @@ "a" :> 97 @@ "b" :> 98 @@
  "c" :> 99 @@ "d" :> 100 @@ "e" :> 101 @@ "f" :> 102 @@ "g" :> 103 @@
  "h" :> 104 @@ "i" :> 105 @@ "j" :> 106 @@ "k" :> 107 @@ "l" :> 108 @@
  "m" :> 109 @@ "n" :> 110 @@ "o" :> 111 @@ "p" :> 112 @@ "q" :> 113 @@
  "r" :> 114 @@ "s" :> 115 @@ "t" :> 116 @@ "u" :> 117 @@ "v" :> 118 @@
  "w" :> 119 @@ "x" :> 120 @@ "y" :> 121 @@ "z" :> 122

DigitValue ==
  "0" :> 0 @@ "1" :> 1 @@ "2" :> 2 @@ "3" :> 3 @@ "4" :> 4 @@
  "5" :> 5 @@ "6" :> 6 @@ "7" :> 7 @@ "8" :> 8 @@ "9" :> 9

DigitChar == <<"0", "1", "2", "3", "4", "5", "6", "7", "8", "9">>

IsDigit(c) == c \in DOMAIN DigitValue

\* std::isspace, for the two blanks the inputs use.
IsSpace(c) == c \in {" ", "\t"}

\* s[i] of the source, i counted from 0.
Tok(s, i) == s[i + 1]

Front(s) == SubSeq(s, 1, Len(s) - 1)

Back(s) == s[Len(s)]

\* std::string::substr(pos): the characters from 0-based position pos on.
SubstrFrom(s, pos) == SubSeq(s, pos + 1, Len(s))

\* QueryParser::toLower (and the std::transform(..., ::tolower) of Table).
toLower(str) ==
  [i \in 1..Len(str) |->
     IF str[i] \in DOMAIN UpperToLower THEN UpperToLower[str[i]] ELSE str[i]]

\* a < b for std::string: lexicographic on the character codes.
RECURSIVE StringLess(_, _)
StringLess(a, b) ==
  IF b = <<>> THEN FALSE
  ELSE IF a = <<>> THEN TRUE
  ELSE IF Ascii[Head(a)] < Ascii[Head(b)] THEN TRUE
  ELSE IF Ascii[Head(a)] > Ascii[Head(b)] THEN FALSE
  ELSE StringLess(Tail(a), Tail(b))

\* The words an istringstream yields with operator>>: maximal runs of
\* non-blank characters, cur being the run read so far.
RECURSIVE ExtractWords(_, _, _)
ExtractWords(s, i, cur) ==
  IF i > Len(s) THEN (IF cur = <<>> THEN <<>> ELSE <<cur>>)
  ELSE IF IsSpace(s[i])
    THEN (IF cur = <<>> THEN <<>> ELSE <<cur>>) \o ExtractWords(s, i + 1, <<>>)
    ELSE ExtractWords(s, i + 1, Append(cur, s[i]))

(***************************************************************************)
(* QueryParser                                                             *)
(***************************************************************************)

\* The body of tokenize's while (iss >> token) loop for one word: the tokens
\* it pushes.  The inner while loop ends in an unconditional break after it
\* has cleared current, so it strips at most one trailing character and the
\* leading-parenthesis step then sees an empty current.
TokenizeWord(token) ==
  IF token # <<>> /\ Back(token) \in {",", ";", ")"}
  THEN LET punct == Back(token)
           current == Front(token)
       IN  (IF current # <<>> THEN <<current>> ELSE <<>>)
           \o (IF punct = "," \/ punct = ")" THEN << <<punct>> >> ELSE <<>>)
  ELSE LET paren == token # <<>> /\ Head(token) = "("
           current == IF paren THEN SubstrFrom(token, 1) ELSE token
       IN  (IF paren THEN <<Word["("]>> ELSE <<>>)
           \o (IF current # <<>> THEN <<current>> ELSE <<>>)

RECURSIVE TokenizeWords(_)
TokenizeWords(words) ==
  IF words = <<>> THEN <<>>
  ELSE TokenizeWord(Head(words)) \o TokenizeWords(Tail(words))

tokenize(query) == TokenizeWords(ExtractWords(query, 1, <<>>))

\* QueryType
CREATE_TABLE == "CREATE_TABLE"
INSERT == "INSERT"
SELECT == "SELECT"
DROP_TABLE == "DROP_TABLE"
SHOW_TABLES == "SHOW_TABLES"
DESCRIBE == "DESCRIBE"
UNKNOWN == "UNKNOWN"

\* ParsedQuery(); what is the message of the std::runtime_error the parser
\* throws, "" when it returns.
EmptyParsedQuery ==
  [type |-> UNKNOWN, table_name |-> <<>>, columns |-> <<>>,
   selected_columns |-> <<>>, values |-> <<>>, where_clause |-> <<>>,
   what |-> ""]

ParseError(query, msg) == [query EXCEPT !.what = msg]

\* while (start < tokens.size() && tokens[start] != "(") start++;
RECURSIVE FindParen(_, _)
FindParen(tokens, start) ==
  IF start < Len(tokens) /\ Tok(tokens, start) # Word["("]
  THEN FindParen(tokens, start + 1)
  ELSE start

\* The column loop of parseCreateTable from index i on.
RECURSIVE CreateColumns(_, _)
CreateColumns(tokens, i) ==
  IF i >= Len(tokens) THEN <<>>
  ELSE IF Tok(tokens, i) = Word[")"] THEN <<>>
  ELSE IF Tok(tokens, i) = Word[","] THEN CreateColumns(tokens, i + 1)
  ELSE IF i + 1 < Len(tokens) /\ Tok(tokens, i + 1) # Word[","]
          /\ Tok(tokens, i + 1) # Word[")"]
    THEN <<[name |-> Tok(tokens, i), type |-> toLower(Tok(tokens, i + 1))]>>
         \o CreateColumns(tokens, i + 2)
    ELSE CreateColumns(tokens, i + 1)

\* A faulty parseCreateTable, against which C23 is tried: a column list
\* with fewer name/type pairs than comma-separated items is a syntax error.
parseCreateTable_RejectsLoneName(tokens, query) ==
  IF Len(tokens) < 4 THEN ParseError(query, "Invalid CREATE TABLE syntax")
  ELSE LET start == FindParen(tokens, 3)
       IN  IF start >= Len(tokens)
           THEN ParseError(query, "Missing column definitions in CREATE TABLE")
           ELSE IF Len(CreateColumns(tokens, start + 1))
                   # 1 + Cardinality({i \in (start + 1)..(Len(tokens) - 1) :
                                       Tok(tokens, i) = Word[","]})
           THEN ParseError(query, "Column without a type")
           ELSE [query EXCEPT !.table_name = Tok(tokens, 2),
                              !.columns = CreateColumns(tokens, start + 1)]

parseCreateTable(tokens, query) ==
  IF Len(tokens) < 4 THEN ParseError(query, "Invalid CREATE TABLE syntax")
  ELSE LET start == FindParen(tokens, 3)
       IN  IF start >= Len(tokens)
           THEN ParseError(query, "Missing column definitions in CREATE TABLE")
           ELSE [query EXCEPT !.table_name = Tok(tokens, 2),
                              !.columns = CreateColumns(tokens, start + 1)]

\* "Remove quotes if present" of parseInsert.
StripQuotes(value) ==
  IF Len(value) >= 2
     /\ (\/ (Head(value) = "\"" /\ Back(value) = "\"")
         \/ (Head(value) = "'" /\ Back(value) = "'"))
  THEN SubSeq(value, 2, Len(value) - 1)
  ELSE value

\* The value loop of parseInsert from index i on.
RECURSIVE InsertValues(_, _)
InsertValues(tokens, i) ==
  IF i >= Len(tokens) THEN <<>>
  ELSE IF Tok(tokens, i) = Word[")"] THEN <<>>
  ELSE IF Tok(tokens, i) = Word[","] THEN InsertValues(tokens, i + 1)
  ELSE <<StripQuotes(Tok(tokens, i))>> \o InsertValues(tokens, i + 1)

parseInsert(tokens, query) ==
  IF Len(tokens) < 5 THEN ParseError(query, "Invalid INSERT syntax")
  ELSE IF toLower(Tok(tokens, 1)) # Word["into"]
    THEN ParseError(query, "Expected 'INTO' after 'INSERT'")
  ELSE IF toLower(Tok(tokens, 3)) # Word["values"]
    THEN ParseError(query, "Expected 'VALUES' in INSERT statement")
  ELSE LET start == FindParen(tokens, 4)
       IN  IF start >= Len(tokens)
           THEN ParseError(query, "Missing values in INSERT statement")
           ELSE [query EXCEPT !.table_name = Tok(tokens, 2),
                              !.values = InsertValues(tokens, start + 1)]

\* The first index i >= from with toLower(tokens[i]) = word, 0 when none.
RECURSIVE FindKeyword(_, _, _)
FindKeyword(tokens, from, word) ==
  IF from >= Len(tokens) THEN 0
  ELSE IF toLower(Tok(tokens, from)) = word THEN from
  ELSE FindKeyword(tokens, from + 1, word)

\* The projection loop of parseSelect from index i on.
RECURSIVE SelectedColumns(_, _, _, _)
SelectedColumns(tokens, i, from_pos, acc) ==
  IF i >= from_pos THEN acc
  ELSE IF Tok(tokens, i) = Word[","]
    THEN SelectedColumns(tokens, i + 1, from_pos, acc)
  ELSE IF Tok(tokens, i) = Word["*"] THEN <<>>
  ELSE SelectedColumns(tokens, i + 1, from_pos, Append(acc, Tok(tokens, i)))

\* A faulty condition text, against which C18 is tried: the last three
\* tokens of the statement are taken.
WhereClause_LastThreeTokens(tokens, where_pos) ==
  IF where_pos > 0 /\ where_pos + 3 < Len(tokens)
  THEN Tok(tokens, Len(tokens) - 3) \o <<" ">> \o Tok(tokens, Len(tokens) - 2)
       \o <<" ">> \o Tok(tokens, Len(tokens) - 1)
  ELSE <<>>

\* The condition text parseSelect builds when WHERE has three tokens after it.
WhereClause(tokens, where_pos) ==
  IF where_pos > 0 /\ where_pos + 3 < Len(tokens)
  THEN Tok(tokens, where_pos + 1) \o <<" ">> \o Tok(tokens, where_pos + 2)
       \o <<" ">> \o Tok(tokens, where_pos + 3)
  ELSE <<>>

\* A faulty parseSelect, against which C19 is tried: a WHERE followed by
\* fewer than three tokens is a syntax error.
parseSelect_RejectsShortWhere(tokens, query) ==
  IF Len(tokens) < 4 THEN ParseError(query, "Invalid SELECT syntax")
  ELSE LET from_pos == FindKeyword(tokens, 1, Word["from"])
       IN  IF from_pos = 0
           THEN ParseError(query, "Missing 'FROM' in SELECT statement")
           ELSE IF from_pos + 1 >= Len(tokens)
           THEN ParseError(query, "Missing table name after 'FROM'")
           ELSE IF /\ FindKeyword(tokens, from_pos + 2, Word["where"]) > 0
                   /\ FindKeyword(tokens, from_pos + 2, Word["where"]) + 3
                        >= Len(tokens)
           THEN ParseError(query, "Incomplete WHERE clause")
           ELSE [query EXCEPT
                   !.selected_columns =
                       SelectedColumns(tokens, 1, from_pos, <<>>),
                   !.table_name = Tok(tokens, from_pos + 1),
                   !.where_clause =
                       WhereClause(tokens,
                                   FindKeyword(tokens, from_pos + 2, Word["where"]))]

parseSelect(tokens, query) ==
  IF Len(tokens) < 4 THEN ParseError(query, "Invalid SELECT syntax")
  ELSE LET from_pos == FindKeyword(tokens, 1, Word["from"])
       IN  IF from_pos = 0
           THEN ParseError(query, "Missing 'FROM' in SELECT statement")
           ELSE IF from_pos + 1 >= Len(tokens)
           THEN ParseError(query, "Missing table name after 'FROM'")
           ELSE [query EXCEPT
                   !.selected_columns =
                       SelectedColumns(tokens, 1, from_pos, <<>>),
                   !.table_name = Tok(tokens, from_pos + 1),
                   !.where_clause =
                       WhereClause(tokens,
                                   FindKeyword(tokens, from_pos + 2, Word["where"]))]

parseDropTable(tokens, query) ==
  IF Len(tokens) < 3 THEN ParseError(query, "Invalid DROP TABLE syntax")
  ELSE [query EXCEPT !.table_name = Tok(tokens, 2)]

parseDescribe(tokens, query) ==
  IF Len(tokens) < 2 THEN ParseError(query, "Invalid DESCRIBE syntax")
  ELSE [query EXCEPT !.table_name = Tok(tokens, 1)]

\* A faulty dispatch, against which C22 is tried: DROP name, with no TABLE
\* between them, drops the table.
ParseTokens_DropsWithoutKeyword(tokens) ==
  LET first_token == toLower(Tok(tokens, 0))
      typed(t) == [EmptyParsedQuery EXCEPT !.type = t]
  IN  IF tokens = <<>> THEN EmptyParsedQuery
      ELSE IF first_token = Word["create"]
        THEN IF Len(tokens) > 1 /\ toLower(Tok(tokens, 1)) = Word["table"]
             THEN parseCreateTable(tokens, typed(CREATE_TABLE))
             ELSE EmptyParsedQuery
      ELSE IF first_token = Word["insert"]
        THEN parseInsert(tokens, typed(INSERT))
      ELSE IF first_token = Word["select"]
        THEN parseSelect(tokens, typed(SELECT))
      ELSE IF first_token = Word["drop"]
        THEN IF Len(tokens) > 1 /\ toLower(Tok(tokens, 1)) = Word["table"]
             THEN parseDropTable(tokens, typed(DROP_TABLE))
             ELSE IF Len(tokens) > 1
             THEN [typed(DROP_TABLE) EXCEPT !.table_name = Tok(tokens, 1)]
             ELSE EmptyParsedQuery
      ELSE IF first_token = Word["show"]
        THEN IF Len(tokens) > 1 /\ toLower(Tok(tokens, 1)) = Word["tables"]
             THEN typed(SHOW_TABLES)
             ELSE EmptyParsedQuery
      ELSE IF first_token = Word["describe"] \/ first_token = Word["desc"]
        THEN parseDescribe(tokens, typed(DESCRIBE))
      ELSE EmptyParsedQuery

\* The dispatch of QueryParser::parse on the tokens of the query.
ParseTokens(tokens) ==
  LET first_token == toLower(Tok(tokens, 0))
      typed(t) == [EmptyParsedQuery EXCEPT !.type = t]
  IN  IF tokens = <<>> THEN EmptyParsedQuery
      ELSE IF first_token = Word["create"]
        THEN IF Len(tokens) > 1 /\ toLower(Tok(tokens, 1)) = Word["table"]
             THEN parseCreateTable(tokens, typed(CREATE_TABLE))
             ELSE EmptyParsedQuery
      ELSE IF first_token = Word["insert"]
        THEN parseInsert(tokens, typed(INSERT))
      ELSE IF first_token = Word["select"]
        THEN parseSelect(tokens, typed(SELECT))
      ELSE IF first_token = Word["drop"]
        THEN IF Len(tokens) > 1 /\ toLower(Tok(tokens, 1)) = Word["table"]
             THEN parseDropTable(tokens, typed(DROP_TABLE))
             ELSE EmptyParsedQuery
      ELSE IF first_token = Word["show"]
        THEN IF Len(tokens) > 1 /\ toLower(Tok(tokens, 1)) = Word["tables"]
             THEN typed(SHOW_TABLES)
             ELSE EmptyParsedQuery
      ELSE IF first_token = Word["describe"] \/ first_token = Word["desc"]
        THEN parseDescribe(tokens, typed(DESCRIBE))
      ELSE EmptyParsedQuery

\* QueryParser::parse
parse(query) == ParseTokens(tokenize(query))

(***************************************************************************)
(* Value and the conversions of Table                                      *)
(***************************************************************************)

\* What a call that may throw yields: exc is the exception class ("" when
\* the call returns) and what its message.
NoThrow == [exc |-> "", what |-> ""]

RuntimeError(msg) == [exc |-> "runtime_error", what |-> msg]

\* The largest int: Value's first alternative is a 32-bit int.
INT_MAX == 2147483647

\* The decimal places std::to_string(double) prints ("%f").
DoublePlaces == 6

\* One, in millionths.
MicroUnit == 10 ^ DoublePlaces

\* Value = std::variant<int, double, std::string, bool>.  A double is held
\* as its value in millionths, which is exact for the decimal literals of at
\* most DoublePlaces fraction digits that the inputs use.
IntValue(n) == [kind |-> "int", v |-> n]
DoubleValue(m) == [kind |-> "double", v |-> m]
StringValue(s) == [kind |-> "string", v |-> s]
BoolValue(b) == [kind |-> "bool", v |-> b]

\* std::variant::index()
VariantIndex == [int |-> 0, double |-> 1, string |-> 2, bool |-> 3]

\* A faulty order, against which C17 is tried: strings are ordered by length.
ValueLess_StringsByLength(a, b) ==
  IF a.kind # b.kind THEN VariantIndex[a.kind] < VariantIndex[b.kind]
  ELSE IF a.kind = "string" THEN Len(a.v) < Len(b.v)
  ELSE IF a.kind = "bool" THEN a.v = FALSE /\ b.v = TRUE
  ELSE a.v < b.v

\* operator< of std::variant: by index first, then by the held value.
ValueLess(a, b) ==
  IF a.kind # b.kind THEN VariantIndex[a.kind] < VariantIndex[b.kind]
  ELSE IF a.kind = "string" THEN StringLess(a.v, b.v)
  ELSE IF a.kind = "bool" THEN a.v = FALSE /\ b.v = TRUE
  ELSE a.v < b.v

\* operator== of std::variant: the same alternative holding an equal value.
ValueEqual(a, b) == a.kind = b.kind /\ a.v = b.v

\* The position of the first character of s at or after i that is no blank.
RECURSIVE SkipSpaces(_, _)
SkipSpaces(s, i) ==
  IF i <= Len(s) /\ IsSpace(s[i]) THEN SkipSpaces(s, i + 1) ELSE i

\* The digits of s from position i on, read as strtol reads them: n counts
\* the digits, acc is the magnitude while it fits an int, and range tells
\* whether it fits ("fits"), is exactly INT_MAX + 1 ("min") or is larger.
ReadDigit(st, d) ==
  IF st.range = "fits"
     /\ (st.acc < INT_MAX \div 10
         \/ (st.acc = INT_MAX \div 10 /\ d <= INT_MAX % 10))
    THEN [acc |-> st.acc * 10 + d, range |-> "fits", n |-> st.n + 1]
  ELSE IF st.range = "fits" /\ st.acc = INT_MAX \div 10
          /\ d = (INT_MAX % 10) + 1
    THEN [acc |-> st.acc, range |-> "min", n |-> st.n + 1]
  ELSE [acc |-> st.acc, range |-> "over", n |-> st.n + 1]

RECURSIVE ReadDigits(_, _, _)
ReadDigits(s, i, st) ==
  IF i > Len(s) \/ ~IsDigit(s[i]) THEN st
  ELSE ReadDigits(s, i + 1, ReadDigit(st, DigitValue[s[i]]))

NoDigits == [acc |-> 0, range |-> "fits", n |-> 0]

\* What std::stoi makes of the digits r read after a sign (neg for "-").
StoiResult(r, neg) ==
  IF r.n = 0 THEN [exc |-> "invalid_argument", what |-> "stoi", v |-> 0]
  ELSE IF r.range = "fits"
    THEN [exc |-> "", what |-> "", v |-> IF neg THEN 0 - r.acc ELSE r.acc]
  ELSE IF r.range = "min" /\ neg
    THEN [exc |-> "", what |-> "", v |-> (0 - INT_MAX) - 1]
  ELSE [exc |-> "out_of_range", what |-> "stoi", v |-> 0]

\* std::stoi on the text that starts at position b, past the blanks.
StoiAt(str, b) ==
  IF b <= Len(str) /\ str[b] \in {"+", "-"}
  THEN StoiResult(ReadDigits(str, b + 1, NoDigits), str[b] = "-")
  ELSE StoiResult(ReadDigits(str, b, NoDigits), FALSE)

\* std::stoi(str): blanks, an optional sign, then the longest run of digits;
\* whatever follows the digits is ignored.  No digit: std::invalid_argument;
\* a value outside int: std::out_of_range.  Both have what() = "stoi".
stoi(str) == StoiAt(str, SkipSpaces(str, 1))

\* The first DoublePlaces fraction digits of s from position i on, as a
\* number of millionths; k is the number of places still to fill.
RECURSIVE ReadFraction(_, _, _)
ReadFraction(s, i, k) ==
  IF k = 0 THEN 0
  ELSE IF i > Len(s) \/ ~IsDigit(s[i]) THEN 0
  ELSE DigitValue[s[i]] * (10 ^ (k - 1)) + ReadFraction(s, i + 1, k - 1)

\* What std::stod makes of the integer digits r, the fraction digits fr and
\* the fraction's value micro in millionths.
StodResult(r, fr, micro, neg) ==
  IF r.n + fr.n = 0
  THEN [exc |-> "invalid_argument", what |-> "stod", v |-> 0]
  ELSE [exc |-> "", what |-> "",
        v |-> IF neg THEN 0 - (r.acc * MicroUnit + micro)
              ELSE r.acc * MicroUnit + micro]

\* std::stod from the integer digits r, which start at position p.
StodFraction(str, p, r, neg) ==
  IF p + r.n <= Len(str) /\ str[p + r.n] = "."
  THEN StodResult(r, ReadDigits(str, p + r.n + 1, NoDigits),
                  ReadFraction(str, p + r.n + 1, DoublePlaces), neg)
  ELSE StodResult(r, NoDigits, 0, neg)

\* std::stod on the text that starts at position b, past the blanks.
StodAt(str, b) ==
  IF b <= Len(str) /\ str[b] \in {"+", "-"}
  THEN StodFraction(str, b + 1, ReadDigits(str, b + 1, NoDigits), str[b] = "-")
  ELSE StodFraction(str, b, ReadDigits(str, b, NoDigits), FALSE)

\* std::stod(str) on decimal literals: blanks, an optional sign, digits, an
\* optional point and fraction digits; the rest is ignored.  No digit at
\* all: std::invalid_argument with what() = "stod".  Exponents, hexadecimal
\* literals, "inf" and "nan" are outside the literals the inputs use.
stod(str) == StodAt(str, SkipSpaces(str, 1))

\* The Value of a conversion r that returned, or the exception it threw.
Converted(r, val) == [exc |-> r.exc, what |-> r.what, val |-> val]

IntConverted(r) == Converted(r, IntValue(r.v))

DoubleConverted(r) == Converted(r, DoubleValue(r.v))

\* A faulty parseValue, against which C24 is tried: the text given for a
\* bool column is stored as a string.
parseValue_BoolAsString(value_str, type) ==
  IF type = Word["int"] THEN IntConverted(stoi(value_str))
  ELSE IF type = Word["double"] THEN DoubleConverted(stod(value_str))
  ELSE Converted(NoThrow, StringValue(value_str))

\* Table::parseValue: the Value, or the exception the conversion throws.
parseValue(value_str, type) ==
  IF type = Word["int"] THEN IntConverted(stoi(value_str))
  ELSE IF type = Word["double"] THEN DoubleConverted(stod(value_str))
  ELSE IF type = Word["bool"]
  THEN Converted(NoThrow, BoolValue(toLower(value_str) = Word["true"]
                                    \/ toLower(value_str) = <<"1">>))
  ELSE Converted(NoThrow, StringValue(value_str))

\* The decimal digits of n >= 0.
RECURSIVE NatToString(_)
NatToString(n) ==
  IF n < 10 THEN <<DigitChar[n + 1]>>
  ELSE NatToString(n \div 10) \o <<DigitChar[(n % 10) + 1]>>

\* The decimal digits of -n for n < 0, last digit d apart so that the
\* smallest int is not negated.
NegatedToString(n, d) ==
  (IF n + d = 0 THEN <<>> ELSE NatToString(0 - ((n + d) \div 10)))
  \o <<DigitChar[d + 1]>>

\* std::to_string(int)
IntToString(n) ==
  IF n < 0 THEN <<"-">> \o NegatedToString(n, (10 - (n % 10)) % 10)
  ELSE NatToString(n)

\* The k low decimal digits of n, zero padded.
RECURSIVE PaddedDigits(_, _)
PaddedDigits(n, k) ==
  IF k = 0 THEN <<>>
  ELSE PaddedDigits(n \div 10, k - 1) \o <<DigitChar[(n % 10) + 1]>>

\* std::to_string(double): "%f" of a number of millionths.
DoubleToString(m) ==
  LET a == IF m < 0 THEN 0 - m ELSE m
  IN  (IF m < 0 THEN <<"-">> ELSE <<>>) \o NatToString(a \div MicroUnit)
      \o <<".">> \o PaddedDigits(a % MicroUnit, DoublePlaces)

\* Table::valueToString
valueToString(value) ==
  IF value.kind = "string" THEN value.v
  ELSE IF value.kind = "bool" THEN (IF value.v THEN Word["true"] ELSE Word["false"])
  ELSE IF value.kind = "int" THEN IntToString(value.v)
  ELSE DoubleToString(value.v)

(***************************************************************************)
(* Table                                                                   *)
(***************************************************************************)

\* Table::Table(name)
NewTable(name) ==
  [table_name |-> name, columns |-> <<>>, rows |-> <<>>,
   column_index_map |-> <<>>]

\* A faulty addColumn, against which C8 is tried: the column is put in front
\* of the columns the table has.
TableAddColumn_Prepends(table, name, type) ==
  [table EXCEPT
     !.columns = <<[name |-> name, type |-> type]>> \o @,
     !.column_index_map =
        (name :> 0) @@ [n \in DOMAIN table.column_index_map |->
                          table.column_index_map[n] + 1]]

\* Table::addColumn
TableAddColumn(table, name, type) ==
  [table EXCEPT
     !.columns = Append(@, [name |-> name, type |-> type]),
     !.column_index_map = (name :> Len(table.columns)) @@ @]

\* Table::hasColumn
hasColumn(table, name) == name \in DOMAIN table.column_index_map

\* Table::getColumnIndex, where hasColumn holds
getColumnIndex(table, name) == table.column_index_map[name]

\* A faulty end of insertRow, against which C6 is tried: the row is pushed
\* before the values are converted, so a failed conversion leaves a row of
\* defaults behind.
PushParsed_KeepsDefaults(table, parsed) ==
  LET bad == {i \in 1..Len(parsed) : parsed[i].exc # ""}
      first == CHOOSE i \in bad : \A j \in bad : i <= j
      pushed == [table EXCEPT
                   !.rows = Append(@, [i \in 1..Len(parsed) |-> parsed[i].val])]
  IN  IF bad # {}
      THEN [table |-> pushed,
            thrown |-> [exc |-> parsed[first].exc, what |-> parsed[first].what]]
      ELSE [table |-> pushed, thrown |-> NoThrow]

\* A faulty end of insertRow, against which C13 is tried: the new row is put
\* in front of the rows the table has.
PushParsed_Prepends(table, parsed) ==
  LET bad == {i \in 1..Len(parsed) : parsed[i].exc # ""}
      first == CHOOSE i \in bad : \A j \in bad : i <= j
  IN  IF bad # {}
      THEN [table |-> table,
            thrown |-> [exc |-> parsed[first].exc, what |-> parsed[first].what]]
      ELSE [table |-> [table EXCEPT
               !.rows = <<[i \in 1..Len(parsed) |-> parsed[i].val]>> \o @],
            thrown |-> NoThrow]

\* The end of insertRow: parsed holds, per value, what parseValue yields.
\* The exception of the first value that fails to convert leaves the loop;
\* the row is a local until every value has converted.
PushParsed(table, parsed) ==
  LET bad == {i \in 1..Len(parsed) : parsed[i].exc # ""}
      first == CHOOSE i \in bad : \A j \in bad : i <= j
  IN  IF bad # {}
      THEN [table |-> table,
            thrown |-> [exc |-> parsed[first].exc, what |-> parsed[first].what]]
      ELSE [table |-> [table EXCEPT
               !.rows = Append(@, [i \in 1..Len(parsed) |-> parsed[i].val])],
            thrown |-> NoThrow]

\* A faulty insertRow, against which C3 is tried: only too few values are
\* refused, surplus values are dropped.
insertRow_DropsSurplus(table, values) ==
  IF Len(values) < Len(table.columns)
  THEN [table |-> table,
        thrown |-> RuntimeError(
                     "Number of values doesn't match number of columns")]
  ELSE PushParsed(table,
                  [i \in 1..Len(table.columns) |->
                     parseValue(values[i], table.columns[i].type)])

\* Table::insertRow(const std::vector<std::string>&): the table after the
\* call and what the call throws.
insertRow(table, values) ==
  IF Len(values) # Len(table.columns)
  THEN [table |-> table,
        thrown |-> RuntimeError(
                     "Number of values doesn't match number of columns")]
  ELSE PushParsed(table,
                  [i \in 1..Len(values) |->
                     parseValue(values[i], table.columns[i].type)])

\* Table::insertRow(const Row&): the table after the call and what the call
\* throws.  Only the size of the row is looked at.
insertRowOfValues(table, row) ==
  IF Len(row) # Len(table.columns)
  THEN [table |-> table,
        thrown |-> RuntimeError("Row size doesn't match number of columns")]
  ELSE [table |-> [table EXCEPT !.rows = Append(@, row)], thrown |-> NoThrow]


\* A faulty comparison chain, against which C10 is tried: = is taken for >=.
Compare_EqualAsAtLeast(op, row_value, condition_value) ==
  IF op = Word["="] THEN ~ValueLess(row_value, condition_value)
  ELSE IF op = Word["!="] THEN ~ValueEqual(row_value, condition_value)
  ELSE IF op = Word["<"] THEN ValueLess(row_value, condition_value)
  ELSE IF op = Word[">"] THEN ValueLess(condition_value, row_value)
  ELSE IF op = Word["<="] THEN ~ValueLess(condition_value, row_value)
  ELSE IF op = Word[">="] THEN ~ValueLess(row_value, condition_value)
  ELSE FALSE

\* A faulty comparison chain, against which C29 is tried: an operator the
\* chain does not know holds of every row.
Compare_UnknownOperatorHolds(op, row_value, condition_value) ==
  IF op = Word["="] THEN ValueEqual(row_value, condition_value)
  ELSE IF op = Word["!="] THEN ~ValueEqual(row_value, condition_value)
  ELSE IF op = Word["<"] THEN ValueLess(row_value, condition_value)
  ELSE IF op = Word[">"] THEN ValueLess(condition_value, row_value)
  ELSE IF op = Word["<="] THEN ~ValueLess(condition_value, row_value)
  ELSE IF op = Word[">="] THEN ~ValueLess(row_value, condition_value)
  ELSE TRUE

\* The comparison chain of evaluateCondition.
Compare(op, row_value, condition_value) ==
  IF op = Word["="] THEN ValueEqual(row_value, condition_value)
  ELSE IF op = Word["!="] THEN ~ValueEqual(row_value, condition_value)
  ELSE IF op = Word["<"] THEN ValueLess(row_value, condition_value)
  ELSE IF op = Word[">"] THEN ValueLess(condition_value, row_value)
  ELSE IF op = Word["<="] THEN ~ValueLess(condition_value, row_value)
  ELSE IF op = Word[">="] THEN ~ValueLess(row_value, condition_value)
  ELSE FALSE

\* The comparison of evaluateCondition, cv being what parseValue yields for
\* the condition's literal.
CompareParsed(op, row_value, cv) ==
  IF cv.exc # ""
  THEN [thrown |-> [exc |-> cv.exc, what |-> cv.what], holds |-> FALSE]
  ELSE [thrown |-> NoThrow, holds |-> Compare(op, row_value, cv.val)]

\* evaluateCondition on the column at index col_idx.
EvaluateAt(table, row, col_idx, op, value_str) ==
  CompareParsed(op, Tok(row, col_idx),
                parseValue(value_str, Tok(table.columns, col_idx).type))

\* A faulty evaluateCondition, against which C20 is tried: a condition on a
\* column the table lacks holds of every row.
EvaluateWords_MissingColumnHolds(table, row, words) ==
  IF Len(words) < 3 THEN [thrown |-> NoThrow, holds |-> TRUE]
  ELSE IF ~hasColumn(table, words[1])
    THEN [thrown |-> NoThrow, holds |-> TRUE]
  ELSE EvaluateAt(table, row, getColumnIndex(table, words[1]), words[2],
                  words[3])

\* evaluateCondition on the words iss >> column_name >> op >> value_str
\* reads; with fewer than three words the extraction fails.
EvaluateWords(table, row, words) ==
  IF Len(words) < 3 THEN [thrown |-> NoThrow, holds |-> TRUE]
  ELSE IF ~hasColumn(table, words[1])
    THEN [thrown |-> NoThrow, holds |-> FALSE]
  ELSE EvaluateAt(table, row, getColumnIndex(table, words[1]), words[2],
                  words[3])

\* Table::evaluateCondition: the truth value, or what parseValue throws.
evaluateCondition(table, row, condition) ==
  EvaluateWords(table, row, ExtractWords(condition, 1, <<>>))

\* Row i (0-based) of selectRows' loop: c is its condition's outcome and
\* rest the outcome of the rows after it.
SelectStep(i, c, rest) ==
  IF c.thrown.exc # "" THEN [thrown |-> c.thrown, indices |-> <<>>]
  ELSE IF rest.thrown.exc # "" THEN rest
  ELSE [thrown |-> NoThrow,
        indices |-> (IF c.holds THEN <<i>> ELSE <<>>) \o rest.indices]

\* The loop of Table::selectRows from row i (0-based) on: the indices it
\* collects, or the exception of the first row whose evaluation throws.
RECURSIVE SelectFrom(_, _, _)
SelectFrom(table, where_clause, i) ==
  IF i >= Len(table.rows) THEN [thrown |-> NoThrow, indices |-> <<>>]
  ELSE SelectStep(i,
                  IF where_clause = <<>>
                  THEN [thrown |-> NoThrow, holds |-> TRUE]
                  ELSE evaluateCondition(table, Tok(table.rows, i),
                                         where_clause),
                  SelectFrom(table, where_clause, i + 1))

\* Table::selectRows
selectRows(table, where_clause) == SelectFrom(table, where_clause, 0)

\* The column selection of Table::printRows: the 0-based column indices.
RECURSIVE NamedColumns(_, _)
NamedColumns(table, selected_columns) ==
  IF selected_columns = <<>> THEN <<>>
  ELSE (IF hasColumn(table, Head(selected_columns))
        THEN <<[idx |-> getColumnIndex(table, Head(selected_columns)),
                header |-> Head(selected_columns)]>>
        ELSE <<>>)
       \o NamedColumns(table, Tail(selected_columns))

\* What printRows prints for the columns cols and the row indices shown.
PrintCells(table, cols, shown) ==
  [headers |-> [i \in 1..Len(cols) |-> cols[i].header],
   rows |-> [k \in 1..Len(shown) |->
               [i \in 1..Len(cols) |->
                  valueToString(Tok(Tok(table.rows, shown[k]), cols[i].idx))]]]

\* A faulty printRows, against which C21 is tried: the selection is not
\* looked at and every column is printed.
printRows_IgnoresSelection(table, row_indices, selected_columns) ==
  [cells |-> PrintCells(table,
               [i \in 1..Len(table.columns) |->
                  [idx |-> i - 1, header |-> table.columns[i].name]],
               SelectSeq(row_indices, LAMBDA r : r < Len(table.rows))),
   count |-> Len(row_indices)]

\* Table::printRows: the headers and the rendered rows it prints, in
\* row_indices order, and the count of its "(N rows)" line.  The rules and
\* the padding to the column widths are layout and are left out.
printRows(table, row_indices, selected_columns) ==
  [cells |-> PrintCells(table,
               IF selected_columns = <<>>
               THEN [i \in 1..Len(table.columns) |->
                       [idx |-> i - 1, header |-> table.columns[i].name]]
               ELSE NamedColumns(table, selected_columns),
               SelectSeq(row_indices, LAMBDA r : r < Len(table.rows))),
   count |-> Len(row_indices)]

(***************************************************************************)
(* DatabaseEngine                                                          *)
(*                                                                         *)
(* tabs is the member tables, the map from table name to Table.  The       *)
(* messages leave out the quoted table name they carry in the source.      *)
(***************************************************************************)

\* DatabaseEngine::hasTable
hasTable(tabs, table_name) == table_name \in DOMAIN tabs

TableNotFound == RuntimeError("Table not found")

\* A faulty createTable, against which C7 is tried: no check for a
\* registered name, the new empty Table takes the place of the old one.
createTable_Replaces(tabs, table_name) ==
  [tables |-> (table_name :> NewTable(table_name)) @@ tabs,
   thrown |-> NoThrow]

\* DatabaseEngine::createTable
createTable(tabs, table_name) ==
  IF hasTable(tabs, table_name)
  THEN [tables |-> tabs, thrown |-> RuntimeError("Table already exists")]
  ELSE [tables |-> (table_name :> NewTable(table_name)) @@ tabs,
        thrown |-> NoThrow]

\* A faulty dropTable, against which C5 is tried: the table is found but
\* not erased.
dropTable_KeepsTable(tabs, table_name) ==
  IF ~hasTable(tabs, table_name)
  THEN [tables |-> tabs, thrown |-> TableNotFound]
  ELSE [tables |-> tabs, thrown |-> NoThrow]

\* A faulty dropTable, against which C25 is tried: every table is erased
\* along with the one named.
dropTable_ErasesAll(tabs, table_name) ==
  IF ~hasTable(tabs, table_name)
  THEN [tables |-> tabs, thrown |-> TableNotFound]
  ELSE [tables |-> <<>>, thrown |-> NoThrow]

\* A faulty dropTable, against which C26 is tried: the rows are destroyed
\* but the table stays registered with its columns.
dropTable_ClearsRows(tabs, table_name) ==
  IF ~hasTable(tabs, table_name)
  THEN [tables |-> tabs, thrown |-> TableNotFound]
  ELSE [tables |-> [tabs EXCEPT ![table_name].rows = <<>>], thrown |-> NoThrow]

\* DatabaseEngine::dropTable
dropTable(tabs, table_name) ==
  IF ~hasTable(tabs, table_name)
  THEN [tables |-> tabs, thrown |-> TableNotFound]
  ELSE [tables |-> [n \in (DOMAIN tabs) \ {table_name} |-> tabs[n]],
        thrown |-> NoThrow]

\* std::sort of a vector that holds the names of the set S once each: the
\* ascending sequence, whatever order the map iteration produced.
RECURSIVE SortNames(_)
SortNames(S) ==
  IF S = {} THEN <<>>
  ELSE LET least == CHOOSE n \in S : \A m \in S \ {n} : StringLess(n, m)
       IN  <<least>> \o SortNames(S \ {least})

\* A faulty listTables, against which C9 is tried: the names are sorted in
\* descending order.
listTables_Descending(tabs) ==
  LET names == SortNames(DOMAIN tabs)
  IN  [k \in 1..Len(names) |-> names[Len(names) + 1 - k]]

\* DatabaseEngine::listTables
listTables(tabs) == SortNames(DOMAIN tabs)

\* DatabaseEngine::addColumn, after getTable has found the table
addColumn(tabs, table_name, column_name, type) ==
  [tabs EXCEPT ![table_name] = TableAddColumn(@, column_name, type)]

\* The addColumn loop of executeQuery's CREATE_TABLE branch.
RECURSIVE AddColumns(_, _, _)
AddColumns(tabs, table_name, columns) ==
  IF columns = <<>> THEN tabs
  ELSE AddColumns(addColumn(tabs, table_name, Head(columns).name,
                            Head(columns).type),
                  table_name, Tail(columns))

\* The table map after table->insertRow(values) with outcome r.
InsertedInto(tabs, table_name, r) ==
  [tables |-> [tabs EXCEPT ![table_name] = r.table], thrown |-> r.thrown]

\* DatabaseEngine::insertInto
insertInto(tabs, table_name, values) ==
  IF ~hasTable(tabs, table_name)
  THEN [tables |-> tabs, thrown |-> TableNotFound]
  ELSE InsertedInto(tabs, table_name, insertRow(tabs[table_name], values))

\* What one executeQuery call writes: status is "ok" for output on cout,
\* "error" for the "Error: ..." line on cerr, "none" when it prints nothing
\* and "uncaught" when an exception leaves it; kind tells which output it
\* is.
NoOutput ==
  [status |-> "none", exc |-> "", what |-> "", kind |-> "", table |-> <<>>,
   headers |-> <<>>, rows |-> <<>>, indices |-> <<>>, count |-> 0,
   nrows |-> 0]

\* The classes the handler's catch (const std::exception&) catches, among
\* those the engine, the table and the parser throw.
StdExceptions == {"runtime_error", "invalid_argument", "out_of_range"}

\* The catch clause of executeQuery: "Error: " and what() on cerr.  An
\* exception of any other class would leave executeQuery ("uncaught").
ErrorOutput(thrown) ==
  [NoOutput EXCEPT
     !.status = IF thrown.exc \in StdExceptions THEN "error" ELSE "uncaught",
     !.exc = thrown.exc, !.what = thrown.what]

Message(kind, table_name) ==
  [NoOutput EXCEPT !.status = "ok", !.kind = kind, !.table = table_name]

\* What select prints: printed is what printRows yields for indices.
SelectOutput(table_name, indices, printed) ==
  [NoOutput EXCEPT !.status = "ok", !.kind = "select", !.table = table_name,
                   !.headers = printed.cells.headers,
                   !.rows = printed.cells.rows,
                   !.indices = indices,
                   !.count = printed.count]

\* select once selectRows has yielded sel: printRows is reached only when
\* selectRows returns.
SelectPrinted(table, table_name, columns, sel) ==
  IF sel.thrown.exc # "" THEN ErrorOutput(sel.thrown)
  ELSE SelectOutput(table_name, sel.indices,
                    printRows(table, sel.indices, columns))

\* DatabaseEngine::select
select(tabs, table_name, columns, where_clause) ==
  IF ~hasTable(tabs, table_name) THEN ErrorOutput(TableNotFound)
  ELSE SelectPrinted(tabs[table_name], table_name, columns,
                     selectRows(tabs[table_name], where_clause))

\* The lines of showTables for the names in table_names order.
TableLines(tabs, table_names) ==
  [i \in 1..Len(table_names) |->
     <<table_names[i], IntToString(Len(tabs[table_names[i]].rows))>>]

\* DatabaseEngine::showTables: one (name, row count) line per table in
\* listTables order, then "(N tables)".
showTables(tabs) ==
  [NoOutput EXCEPT
     !.status = "ok", !.kind = "tables",
     !.rows = TableLines(tabs, listTables(tabs)),
     !.count = Cardinality(DOMAIN tabs)]

\* The lines of describeTable for the columns.
ColumnLines(columns) ==
  [i \in 1..Len(columns) |-> <<columns[i].name, columns[i].type>>]

\* DatabaseEngine::describeTable: one (name, type) line per column, then
\* "(N columns, M rows)".
describeTable(tabs, table_name) ==
  IF ~hasTable(tabs, table_name) THEN ErrorOutput(TableNotFound)
  ELSE [NoOutput EXCEPT
          !.status = "ok", !.kind = "describe", !.table = table_name,
          !.rows = ColumnLines(tabs[table_name].columns),
          !.count = Len(tabs[table_name].columns),
          !.nrows = Len(tabs[table_name].rows)]

\* A branch of executeQuery that changes the map: r is what the engine
\* call yields, kind the message printed when it returns.
Changed(r, kind, table_name) ==
  IF r.thrown.exc # ""
  THEN [tables |-> r.tables, output |-> ErrorOutput(r.thrown)]
  ELSE [tables |-> r.tables, output |-> Message(kind, table_name)]

\* The CREATE_TABLE branch: createTable, yielding c, then one addColumn per
\* parsed column.
Created(c, table_name, columns) ==
  IF c.thrown.exc # ""
  THEN [tables |-> c.tables, output |-> ErrorOutput(c.thrown)]
  ELSE [tables |-> AddColumns(c.tables, table_name, columns),
        output |-> Message("created", table_name)]

\* The try block of executeQuery on what the parser yields.
Dispatch(tabs, parsed_query) ==
  IF parsed_query.what # ""
  THEN [tables |-> tabs,
        output |-> ErrorOutput(RuntimeError(parsed_query.what))]
  ELSE IF parsed_query.type = CREATE_TABLE
    THEN Created(createTable(tabs, parsed_query.table_name),
                 parsed_query.table_name, parsed_query.columns)
  ELSE IF parsed_query.type = INSERT
    THEN Changed(insertInto(tabs, parsed_query.table_name,
                            parsed_query.values),
                 "inserted", parsed_query.table_name)
  ELSE IF parsed_query.type = SELECT
    THEN [tables |-> tabs,
          output |-> select(tabs, parsed_query.table_name,
                            parsed_query.selected_columns,
                            parsed_query.where_clause)]
  ELSE IF parsed_query.type = DROP_TABLE
    THEN Changed(dropTable(tabs, parsed_query.table_name),
                 "dropped", parsed_query.table_name)
  ELSE IF parsed_query.type = SHOW_TABLES
    THEN [tables |-> tabs, output |-> showTables(tabs)]
  ELSE IF parsed_query.type = DESCRIBE
    THEN [tables |-> tabs,
          output |-> describeTable(tabs, parsed_query.table_name)]
  ELSE [tables |-> tabs, output |-> NoOutput]

\* DatabaseEngine::executeQuery: the map after the call and what it wrote.
\* Every exception thrown under it is a std::exception and is caught by its
\* handler.
executeQuery(tabs, query) == Dispatch(tabs, parse(query))

(***************************************************************************)
(* The statements given to the engine                                      *)
(***************************************************************************)
\* The words the statements are written with: keywords as the help text
\* types them, table names, column names and literals.
Text ==
  ("CREATE" :> <<"C", "R", "E", "A", "T", "E">>) @@
  ("TABLE" :> <<"T", "A", "B", "L", "E">>) @@
  ("INSERT" :> <<"I", "N", "S", "E", "R", "T">>) @@
  ("INTO" :> <<"I", "N", "T", "O">>) @@
  ("VALUES" :> <<"V", "A", "L", "U", "E", "S">>) @@
  ("SELECT" :> <<"S", "E", "L", "E", "C", "T">>) @@
  ("FROM" :> <<"F", "R", "O", "M">>) @@
  ("WHERE" :> <<"W", "H", "E", "R", "E">>) @@
  ("DROP" :> <<"D", "R", "O", "P">>) @@
  ("SHOW" :> <<"S", "H", "O", "W">>) @@
  ("TABLES" :> <<"T", "A", "B", "L", "E", "S">>) @@
  ("DESCRIBE" :> <<"D", "E", "S", "C", "R", "I", "B", "E">>) @@
  ("DESC" :> <<"D", "E", "S", "C">>) @@
  ("t" :> <<"t">>) @@
  ("u" :> <<"u">>) @@
  ("ta" :> <<"t", "a">>) @@
  ("missing" :> <<"m", "i", "s", "s", "i", "n", "g">>) @@
  ("users" :> <<"u", "s", "e", "r", "s">>) @@
  ("a" :> <<"a">>) @@
  ("b" :> <<"b">>) @@
  ("id" :> <<"i", "d">>) @@
  ("name" :> <<"n", "a", "m", "e">>) @@
  ("age" :> <<"a", "g", "e">>) @@
  ("1" :> <<"1">>) @@
  ("2" :> <<"2">>) @@
  ("x" :> <<"x">>) @@
  ("12ab" :> <<"1", "2", "a", "b">>) @@
  ("25" :> <<"2", "5">>) @@
  ("26" :> <<"2", "6">>) @@
  ("30" :> <<"3", "0">>) @@
  ("Alice" :> <<"A", "l", "i", "c", "e">>) @@
  ("Bob" :> <<"B", "o", "b">>) @@
  ("STRING" :> <<"S", "T", "R", "I", "N", "G">>) @@
  ("AND" :> <<"A", "N", "D">>) @@
  ("Quit" :> <<"Q", "u", "i", "t">>) @@
  ("OR" :> <<"O", "R">>) @@
  ("c" :> <<"c">>) @@
  ("d" :> <<"d">>) @@
  ("zz" :> <<"z", "z">>) @@
  ("true" :> <<"t", "r", "u", "e">>) @@
  ("false" :> <<"f", "a", "l", "s", "e">>) @@
  ("2147483648" :> <<"2", "1", "4", "7", "4", "8", "3", "6", "4", "8">>) @@
  ("text" :> <<"t", "e", "x", "t">>) @@
  ("2.5" :> <<"2", ".", "5">>) @@
  ("'Alice'" :> <<"'", "A", "l", "i", "c", "e", "'">>) @@
  ("==" :> <<"=", "=">>) @@
  ("<>" :> <<"<", ">">>) @@
  ("foo" :> <<"f", "o", "o">>)

\* The words of ws with one blank between them.
RECURSIVE Join(_)
Join(ws) ==
  IF ws = <<>> THEN <<>>
  ELSE IF Len(ws) = 1 THEN ws[1]
  ELSE ws[1] \o <<" ">> \o Join(Tail(ws))

\* items separated by ", ".
RECURSIVE CommaList(_)
CommaList(items) ==
  IF items = <<>> THEN <<>>
  ELSE IF Len(items) = 1 THEN items[1]
  ELSE items[1] \o <<",", " ">> \o CommaList(Tail(items))

\* A column declaration as CREATE TABLE takes it.
Col(name, type) == [name |-> name, type |-> type]

\* CREATE TABLE name (c1 ty1, c2 ty2, ...), as printHelp documents it.
CreateText(name, cols) ==
  Join(<<Text["CREATE"], Text["TABLE"], name>>) \o <<" ", "(">>
  \o CommaList([i \in 1..Len(cols) |-> cols[i].name \o <<" ">> \o cols[i].type])
  \o <<")">>

\* INSERT INTO name VALUES (v1, v2, ...), as printHelp documents it.
InsertText(name, vals) ==
  Join(<<Text["INSERT"], Text["INTO"], name, Text["VALUES"]>>) \o <<" ", "(">>
  \o CommaList(vals) \o <<")">>

\* INSERT INTO name VALUES ( v1, v2 ): the same statement with a blank after
\* the opening and before the closing parenthesis.
SpacedInsertText(name, vals) ==
  Join(<<Text["INSERT"], Text["INTO"], name, Text["VALUES"]>>) \o <<" ", "(", " ">>
  \o CommaList(vals) \o <<" ", ")">>

\* SELECT cols FROM name, cols being * or a comma list of names.
SelectText(cols, name) ==
  Join(<<Text["SELECT"], cols, Text["FROM"], name>>)

\* SELECT cols FROM name WHERE col op lit
SelectWhereText(cols, name, col, op, lit) ==
  Join(<<Text["SELECT"], cols, Text["FROM"], name, Text["WHERE"], col, op, lit>>)

DropText(name) == Join(<<Text["DROP"], Text["TABLE"], name>>)

DescribeText(name) == Join(<<Text["DESCRIBE"], name>>)

ShowTablesText == Join(<<Text["SHOW"], Text["TABLES"]>>)


ColsA == <<Col(Text["a"], Word["int"])>>
ColsAB == <<Col(Text["a"], Word["int"]), Col(Text["b"], Word["string"])>>
ColsBA == <<Col(Text["b"], Text["STRING"]), Col(Text["a"], Word["int"])>>
ColsUsers ==
  <<Col(Text["id"], Word["int"]), Col(Text["name"], Word["string"]),
    Col(Text["age"], Word["int"])>>

\* The largest number of rows a table is let grow to.
MaxRows == 2

\* The length of a script of statements.
ScriptLen == 4

CreateInputs ==
  {[name |-> Text["t"], cols |-> ColsA], [name |-> Text["t"], cols |-> ColsAB],
   [name |-> Text["u"], cols |-> ColsA], [name |-> Text["ta"], cols |-> ColsBA]}

InsertInputs ==
  {[name |-> Text["t"], vals |-> vs] :
     vs \in {<<Text["1"]>>, <<Text["2"]>>, <<Text["12ab"]>>, <<Text["x"]>>,
             <<Text["1"], Text["Alice"]>>,
             <<Text["2"], Text["Bob"]>>, <<Text["x"], Text["Alice"]>>}}
  \cup {[name |-> Text["u"], vals |-> <<Text["1"]>>]}

WhereInputs ==
  {[cols |-> Word["*"], name |-> Text["t"], col |-> Text["a"], op |-> Word["="], lit |-> Text["1"]],
   [cols |-> Word["*"], name |-> Text["t"], col |-> Text["a"], op |-> Word["="], lit |-> Text["2"]],
   [cols |-> Word["*"], name |-> Text["t"], col |-> Text["a"], op |-> Word["="], lit |-> Text["x"]],
   [cols |-> Word["*"], name |-> Text["t"], col |-> Text["b"], op |-> Word["="], lit |-> Text["Alice"]],
   [cols |-> Text["b"], name |-> Text["t"], col |-> Text["a"], op |-> Word[">"], lit |-> Text["1"]]}

CreateStatements == {CreateText(i.name, i.cols) : i \in CreateInputs}

InsertStatements ==
  {InsertText(i.name, i.vals) : i \in InsertInputs}
  \cup {SpacedInsertText(i.name, i.vals) : i \in InsertInputs}

SelectStatements ==
  {SelectText(Word["*"], n) : n \in {Text["t"], Text["u"]}}
  \cup {SelectWhereText(i.cols, i.name, i.col, i.op, i.lit) : i \in WhereInputs}

DropStatements == {DropText(n) : n \in {Text["t"], Text["u"], Text["ta"], Text["missing"]}}

ShowStatements == {ShowTablesText, Join(<<Word["show"], Word["tables"]>>)}

DescribeStatements ==
  {DescribeText(n) : n \in {Text["t"], Text["u"], Text["ta"]}}
  \cup {Join(<<Text["DESC"], Text["t"]>>)}

OtherStatements ==
  {<<>>, <<"h", "e", "l", "p", "!">>, Join(<<Text["CREATE"], Text["t"]>>),
   Join(<<Text["SHOW"], Text["t"]>>)}

\* The script of the users scenario and the statements scripts draw from.
UsersScript ==
  <<CreateText(Text["users"], ColsUsers),
    InsertText(Text["users"], <<Text["1"], Text["Alice"], Text["30"]>>),
    InsertText(Text["users"], <<Text["2"], Text["Bob"], Text["25"]>>),
    SelectWhereText(Text["name"], Text["users"], Text["age"], Word[">"], Text["26"])>>

ScriptStatements ==
  {UsersScript[i] : i \in 1..Len(UsersScript)}
  \cup {SpacedInsertText(Text["users"], <<Text["1"], Text["Alice"], Text["30"]>>),
        SpacedInsertText(Text["users"], <<Text["2"], Text["Bob"], Text["25"]>>)}

(***************************************************************************)
(* The engine as a state machine                                           *)
(***************************************************************************)
VARIABLES
  tables,     \* DatabaseEngine::tables
  lastQuery,  \* the text of the latest executeQuery call
  output,     \* what that call wrote
  dropped,    \* the names whose latest CREATE TABLE or DROP TABLE to succeed
              \* was a DROP TABLE
  script,     \* the statements of a scripted session, or the lines of the
              \* standard input
  pc,         \* how many of them have run, or been read
  shell       \* SimpleDatabase::run: running, input and the state of std::cin

\* The shell while no run loop is going.
NoShell ==
  [running |-> FALSE, input |-> <<>>, eofbit |-> FALSE, failbit |-> FALSE,
   newline |-> TRUE, prompts |-> 0, executed |-> 0]

vars == <<tables, lastQuery, output, dropped, script, pc, shell>>

\* The state after a call of executeQuery that yields r.
Returned(query, r) ==
  /\ tables' = r.tables
  /\ output' = r.output
  /\ lastQuery' = query
  /\ dropped' = IF r.output.kind = "dropped"
                  THEN dropped \cup {r.output.table}
                ELSE IF r.output.kind = "created"
                  THEN dropped \ {r.output.table}
                ELSE dropped

\* One call engine.executeQuery(query).
Execute(query) == Returned(query, executeQuery(tables, query))

\* No table is grown past MaxRows rows.
WithinBounds == \A n \in DOMAIN tables' : Len(tables'[n].rows) <= MaxRows

Init ==
  /\ tables = <<>>
  /\ lastQuery = <<>>
  /\ output = NoOutput
  /\ dropped = {}
  /\ script = <<>>
  /\ pc = 0
  /\ shell = NoShell

CreateTable ==
  \E q \in CreateStatements : Execute(q) /\ UNCHANGED <<script, pc, shell>>

Insert ==
  \E q \in InsertStatements :
    Execute(q) /\ WithinBounds /\ UNCHANGED <<script, pc, shell>>

Select ==
  \E q \in SelectStatements : Execute(q) /\ UNCHANGED <<script, pc, shell>>

DropTable ==
  \E q \in DropStatements : Execute(q) /\ UNCHANGED <<script, pc, shell>>

ShowTables ==
  \E q \in ShowStatements : Execute(q) /\ UNCHANGED <<script, pc, shell>>

Describe ==
  \E q \in DescribeStatements : Execute(q) /\ UNCHANGED <<script, pc, shell>>

Other ==
  \E q \in OtherStatements : Execute(q) /\ UNCHANGED <<script, pc, shell>>

Next ==
  \/ CreateTable
  \/ Insert
  \/ Select
  \/ DropTable
  \/ ShowTables
  \/ Describe
  \/ Other

Spec == Init /\ [][Next]_vars

\* A scripted session: a fresh engine is given the statements of script one
\* after the other.
ScriptInit ==
  /\ tables = <<>>
  /\ lastQuery = <<>>
  /\ output = NoOutput
  /\ dropped = {}
  /\ script \in [1..ScriptLen -> ScriptStatements]
  /\ pc = 0
  /\ shell = NoShell

RunScript ==
  /\ pc < Len(script)
  /\ Execute(script[pc + 1])
  /\ pc' = pc + 1
  /\ UNCHANGED <<script, shell>>

ScriptSpec == ScriptInit /\ [][RunScript]_vars

\* The largest number of columns the Table interface is let add.
MaxColumns == 2

\* The Table that the calls on the Table interface go to, through
\* engine.getTable.
TheTable == Text["t"]

\* What a client of the Table interface passes: column names and types, rows
\* of Values, rows of texts.
ColumnInputs == {Col(n, ty) : n \in {Text["a"], Text["b"]},
                              ty \in {Word["int"], Word["string"]}}

ValueInputs == {IntValue(1), StringValue(Text["x"])}

RowInputs ==
  UNION {[1..k -> ValueInputs] : k \in 0..MaxColumns}

TextRowInputs ==
  UNION {[1..k -> {Text["1"], Text["x"]}] : k \in 0..MaxColumns}

\* The state after a call on the Table that yields r: the exception, if any,
\* reaches the caller.
TableReturned(r) ==
  /\ tables' = [tables EXCEPT ![TheTable] = r.table]
  /\ output' = [NoOutput EXCEPT !.status = IF r.thrown.exc = "" THEN "ok"
                                           ELSE "uncaught",
                                !.exc = r.thrown.exc,
                                !.what = r.thrown.what]
  /\ UNCHANGED <<lastQuery, dropped, script, pc, shell>>

TableInit ==
  /\ tables = (TheTable :> NewTable(TheTable))
  /\ lastQuery = <<>>
  /\ output = NoOutput
  /\ dropped = {}
  /\ script = <<>>
  /\ pc = 0
  /\ shell = NoShell

\* table->addColumn(name, type)
AddColumn ==
  /\ Len(tables[TheTable].columns) < MaxColumns
  /\ \E c \in ColumnInputs :
       TableReturned([table |-> TableAddColumn(tables[TheTable], c.name, c.type),
                      thrown |-> NoThrow])

\* table->insertRow(row), row a Row
InsertRowOfValues ==
  \E row \in RowInputs :
    TableReturned(insertRowOfValues(tables[TheTable], row)) /\ WithinBounds

\* table->insertRow(values), values a vector of strings
InsertRowOfStrings ==
  \E values \in TextRowInputs :
    TableReturned(insertRow(tables[TheTable], values)) /\ WithinBounds

TableNext ==
  \/ AddColumn
  \/ InsertRowOfValues
  \/ InsertRowOfStrings

TableSpec == TableInit /\ [][TableNext]_vars

\* A session of queries on the table t (a int, b string, c bool), next to a
\* table d whose two columns are both named a.
QueryTables ==
  {[name |-> Text["t"],
    cols |-> <<Col(Text["a"], Word["int"]), Col(Text["b"], Word["string"]),
               Col(Text["c"], Word["bool"])>>],
   [name |-> Text["d"],
    cols |-> <<Col(Text["a"], Word["int"]), Col(Text["a"], Word["string"])>>]}

\* The rows offered to t; the first value of the last is 2^31.
QueryRows ==
  {<<Text["1"], Text["Alice"], Text["true"]>>,
   <<Text["2"], Text["Bob"], Text["false"]>>,
   <<Text["2147483648"], Text["Bob"], Text["true"]>>}

\* The conditions col op lit put after WHERE; t has no column zz.
Comparisons ==
  {[col |-> p[1], op |-> o, lit |-> p[2]] :
     o \in {Word["="], Word["!="], Word["<"], Word[">"], Word["<="], Word[">="]},
     p \in {<<Text["a"], Text["1"]>>, <<Text["a"], Text["2"]>>,
            <<Text["b"], Text["Alice"]>>, <<Text["b"], Text["Bob"]>>,
            <<Text["c"], Text["true"]>>, <<Text["c"], Text["false"]>>}}
  \cup {[col |-> Text["zz"], op |-> o, lit |-> l] :
          o \in {Word["="], Word["<"]}, l \in {Text["1"], Text["x"]}}

\* SELECT * FROM t WHERE col op lit
ComparisonText(q) == SelectWhereText(Word["*"], Text["t"], q.col, q.op, q.lit)

\* Two conditions joined by AND or OR.
CompoundInputs ==
  {[first |-> q, word |-> w, second |-> r] :
     q \in {[col |-> Text["a"], op |-> Word["="], lit |-> Text["1"]],
            [col |-> Text["a"], op |-> Word[">"], lit |-> Text["1"]]},
     w \in {Text["AND"], Text["OR"]},
     r \in {[col |-> Text["b"], op |-> Word["="], lit |-> Text["Bob"]]}}

\* SELECT * FROM t WHERE c1 op1 v1 AND c2 op2 v2
CompoundText(i) ==
  Join(<<ComparisonText(i.first), i.word, i.second.col, i.second.op,
         i.second.lit>>)

\* SELECT * FROM t WHERE followed by fewer than three words.
ShortWheres ==
  {Join(<<SelectText(Word["*"], Text["t"]), Text["WHERE"]>> \o ws) :
     ws \in {<<>>, <<Text["a"]>>, <<Text["a"], Word[">"]>>}}

QueryStatements ==
  {CreateText(i.name, i.cols) : i \in QueryTables}
  \cup {SpacedInsertText(Text["t"], vals) : vals \in QueryRows}
  \cup {ComparisonText(q) : q \in Comparisons}
  \cup {CompoundText(i) : i \in CompoundInputs}
  \cup ShortWheres
  \cup {SelectText(Word["*"], Text["t"])}

RunStatement ==
  \E q \in QueryStatements :
    Execute(q) /\ WithinBounds /\ UNCHANGED <<script, pc, shell>>

QuerySpec == Init /\ [][RunStatement]_vars

\* SimpleDatabase::trim: str without the blanks, tabs, line feeds and
\* carriage returns at its two ends.
RECURSIVE trim(_)
trim(str) ==
  IF str = <<>> THEN <<>>
  ELSE IF Head(str) \in {" ", "\t", "\n", "\r"} THEN trim(Tail(str))
  ELSE IF str[Len(str)] \in {" ", "\t", "\n", "\r"} THEN trim(Front(str))
  ELSE str

\* std::getline(std::cin, input) with pos of the lines read and the stream
\* state of sh.  A stream that is not good sets failbit and leaves input as
\* it is; a line that the end of input cuts short sets eofbit; nothing left
\* to extract sets eofbit and failbit and leaves input empty.
getline(sh, lines, pos) ==
  IF sh.eofbit \/ sh.failbit
  THEN [input |-> sh.input, eofbit |-> sh.eofbit, failbit |-> TRUE, pos |-> pos]
  ELSE IF pos < Len(lines)
  THEN [input |-> lines[pos + 1],
        eofbit |-> pos + 1 = Len(lines) /\ ~sh.newline,
        failbit |-> pos + 1 = Len(lines) /\ ~sh.newline /\ lines[pos + 1] = <<>>,
        pos |-> pos + 1]
  ELSE [input |-> <<>>, eofbit |-> TRUE, failbit |-> TRUE, pos |-> pos]

\* The largest number of lines on the standard input.
MaxLines == 2

\* The prompts written are counted modulo PromptModulus.
PromptModulus == 2

\* The lines piped to the shell.
ShellLines ==
  {ShowTablesText, CreateText(Text["t"], ColsA), <<" ">> \o ShowTablesText,
   Word["exit"], <<" ">> \o Text["Quit"] \o <<" ">>, Word["help"], <<>>}

\* SimpleDatabase::run before the loop: running is true, input is empty and
\* std::cin is good.  newline tells whether the last line of the input ends
\* in a line feed.
ShellInit ==
  /\ tables = <<>>
  /\ lastQuery = <<>>
  /\ output = NoOutput
  /\ dropped = {}
  /\ script \in UNION {[1..k -> ShellLines] : k \in 0..MaxLines}
  /\ pc = 0
  /\ shell \in {[NoShell EXCEPT !.running = TRUE, !.newline = b] :
                  b \in BOOLEAN}

\* The shell after an iteration in which getline yielded r and trim made
\* line of it; called tells whether executeQuery was called.
Iterated(r, line, called) ==
  [shell EXCEPT
     !.running = toLower(line) \notin {Word["exit"], Word["quit"]},
     !.input = line,
     !.eofbit = r.eofbit,
     !.failbit = r.failbit,
     !.prompts = (@ + 1) % PromptModulus,
     !.executed = IF called /\ @ <= Len(script) THEN @ + 1 ELSE @]

\* The body of the loop after getline and trim.
Entered(r, line) ==
  /\ pc' = r.pos
  /\ UNCHANGED script
  /\ IF \/ line = <<>>
        \/ toLower(line) \in {Word["exit"], Word["quit"], Word["help"],
                              Word["info"], Word["clear"]}
     THEN /\ shell' = Iterated(r, line, FALSE)
          /\ UNCHANGED <<tables, lastQuery, output, dropped>>
     ELSE /\ shell' = Iterated(r, line, TRUE)
          /\ Execute(line)

\* One iteration of while (running).
Iteration ==
  /\ shell.running
  /\ Entered(getline(shell, script, pc),
             trim(getline(shell, script, pc).input))

\* The loop goes on for as long as running holds.
ShellSpec == ShellInit /\ [][Iteration]_vars /\ WF_vars(Iteration)

\* Sessions that create, fill, drop and create again the one table t.
RecreateStatements ==
  {CreateText(Text["t"], ColsA), CreateText(Text["t"], ColsAB),
   SpacedInsertText(Text["t"], <<Text["2"]>>),
   SpacedInsertText(Text["t"], <<Text["1"], Text["Alice"]>>),
   DropText(Text["t"]), SelectText(Word["*"], Text["t"])}

RecreateInit ==
  /\ tables = <<>>
  /\ lastQuery = <<>>
  /\ output = NoOutput
  /\ dropped = {}
  /\ script \in [1..ScriptLen -> RecreateStatements]
  /\ pc = 0
  /\ shell = NoShell

RecreateSpec == RecreateInit /\ [][RunScript]_vars

(***************************************************************************)
(* Statement forms: projections, column definitions that lack a type,      *)
(* quoted literals, operators the comparison chain does not know and       *)
(* statements closed by a semicolon, all on the one table t                *)
(***************************************************************************)

\* CREATE TABLE name ( c1 ty1 , c2 , c3 ty3 ): every token stands alone, a
\* column whose type is <<>> is written as its name only, and the closing
\* parenthesis is written when closed holds.
SpacedCreateText(name, cols, closed) ==
  LET Item(i) == (IF i > 1 THEN <<Word[","]>> ELSE <<>>)
                 \o <<cols[i].name>>
                 \o (IF cols[i].type = <<>> THEN <<>> ELSE <<cols[i].type>>)
      Items[i \in 0..Len(cols)] == IF i = 0 THEN <<>> ELSE Items[i - 1] \o Item(i)
  IN  Join(<<Text["CREATE"], Text["TABLE"], name, Word["("]>> \o Items[Len(cols)]
           \o (IF closed THEN <<Word[")"]>> ELSE <<>>))

\* What the statements are made of: the column lists of CREATE TABLE t, the
\* value lists of INSERT INTO t, the projection lists of SELECT and the
\* conditions after WHERE.
FormInputs ==
  [columns |->
     {<<Col(Text["a"], Word["int"]), Col(Text["b"], Word["string"])>>,
      <<Col(Text["a"], <<>>), Col(Text["b"], Word["int"])>>,
      <<Col(Text["a"], Word["int"]), Col(Text["b"], <<>>)>>,
      <<Col(Text["a"], <<>>)>>,
      <<Col(Text["a"], Word["double"]), Col(Text["b"], Word["bool"]),
        Col(Text["c"], Text["text"])>>},
   values |->
     {<<Text["1"], Text["Alice"]>>, <<Text["2"], Text["'Alice'"]>>,
      <<Text["1"]>>, <<>>, <<Text["2.5"], Text["true"], Text["x"]>>},
   projections |->
     {<<Word["*"]>>, <<Text["b"], Text["zz"], Text["a"]>>,
      <<Text["a"], Word["*"]>>, <<Text["zz"]>>, <<Text["b"]>>, <<>>},
   conditions |->
     {[col |-> Text["b"], op |-> Word["="], lit |-> Text["'Alice'"]],
      [col |-> Text["b"], op |-> Word["="], lit |-> Text["Alice"]],
      [col |-> Text["b"], op |-> Text["=="], lit |-> Text["Alice"]],
      [col |-> Text["a"], op |-> Text["<>"], lit |-> Text["1"]],
      [col |-> Text["a"], op |-> Text["=="], lit |-> Text["1"]]}]

\* One statement of each kind, none of them closed by a semicolon.
SemicolonFree ==
  {CreateText(Text["t"], ColsAB),
   SpacedInsertText(Text["t"], <<Text["1"], Text["Alice"]>>),
   SelectText(Word["*"], Text["t"]),
   DropText(Text["t"]), ShowTablesText, DescribeText(Text["t"])}

FormStatements ==
  {SpacedCreateText(Text["t"], cols, closed) :
     cols \in FormInputs.columns, closed \in BOOLEAN}
  \cup {SpacedInsertText(Text["t"], vals) : vals \in FormInputs.values}
  \cup {SelectText(CommaList(p), Text["t"]) : p \in FormInputs.projections}
  \cup {SelectWhereText(CommaList(p), Text["t"], Text["a"], Word[">"], Text["1"]) :
          p \in FormInputs.projections}
  \cup {SelectWhereText(Word["*"], Text["t"], q.col, q.op, q.lit) :
          q \in FormInputs.conditions}
  \cup OtherStatements
  \cup {Text["foo"], Join(<<Text["DROP"], Text["t"]>>)}
  \cup SemicolonFree
  \cup {s \o <<";">> : s \in SemicolonFree}

RunForm ==
  \E q \in FormStatements :
    Execute(q) /\ WithinBounds /\ UNCHANGED <<script, pc, shell>>

FormSpec == Init /\ [][RunForm]_vars

(***************************************************************************)
(* Properties                                                              *)
(***************************************************************************)

\* The row of Values that vals converts to under the columns cols.
ConvertedRow(vals, cols) ==
  [k \in 1..Len(vals) |-> parseValue(vals[k], cols[k].type).val]

\* Every text of vals converts under the type of its column.
AllConvert(vals, cols) ==
  \A k \in 1..Len(vals) : parseValue(vals[k], cols[k].type).exc = ""

\* The rows of a table as SELECT * prints them.
Rendered(rows) ==
  [r \in 1..Len(rows) |->
     [k \in 1..Len(rows[r]) |-> valueToString(rows[r][k])]]

\* C1: an INSERT in the documented form INSERT INTO t VALUES (v1, v2, ...)
\* whose value count equals the column count of the registered table t and
\* whose values convert under the column types appends exactly that row to
\* t, and a SELECT * FROM t prints the rows of t in insertion order, so the
\* new row last.
C1_DocumentedInsertAppends ==
  [][/\ \A i \in InsertInputs :
          (/\ lastQuery' = InsertText(i.name, i.vals)
           /\ i.name \in DOMAIN tables
           /\ Len(i.vals) = Len(tables[i.name].columns)
           /\ AllConvert(i.vals, tables[i.name].columns))
          => /\ i.name \in DOMAIN tables'
             /\ tables'[i.name].rows =
                  Append(tables[i.name].rows,
                         ConvertedRow(i.vals, tables[i.name].columns))
     /\ \A n \in {Text["t"], Text["u"]} :
          (lastQuery' = SelectText(Word["*"], n) /\ n \in DOMAIN tables)
          => output'.rows = Rendered(tables[n].rows)
    ]_vars

\* C2: on a fresh engine the script CREATE TABLE users (id int, name string,
\* age int); INSERT INTO users VALUES (1, Alice, 30); INSERT INTO users
\* VALUES (2, Bob, 25); SELECT name FROM users WHERE age > 26 ends with the
\* SELECT printing exactly one row, <<"Alice">>.
C2_UsersScenarioYieldsAlice ==
  (pc = Len(UsersScript) /\ SubSeq(script, 1, Len(UsersScript)) = UsersScript)
  => /\ output.kind = "select"
     /\ output.count = 1
     /\ output.rows = << <<Text["Alice"]>> >>

\* C3: an insert by strings that reaches insertInto with a number of values
\* other than the column count of the registered table leaves every table
\* as it was and reports the arity mismatch.
C3_ArityMismatchRejected ==
  [][\A i \in InsertInputs :
       (/\ lastQuery' = SpacedInsertText(i.name, i.vals)
        /\ i.name \in DOMAIN tables
        /\ Len(i.vals) # Len(tables[i.name].columns))
       => /\ tables' = tables
          /\ output'.status = "error"
          /\ output'.what = "Number of values doesn't match number of columns"
    ]_vars

\* C3 witness: a two-value insert was refused by a one-column table that
\* holds a row.
C3_Witness ==
  /\ lastQuery = SpacedInsertText(Text["t"], <<Text["1"], Text["Alice"]>>)
  /\ Text["t"] \in DOMAIN tables
  /\ Len(tables[Text["t"]].columns) = 1
  /\ Len(tables[Text["t"]].rows) > 0
  /\ output.what = "Number of values doesn't match number of columns"

\* The whole of text is a base-10 integer: an optional sign, then digits.
IsBase10Integer(text) ==
  LET digits == IF text # <<>> /\ Head(text) \in {"+", "-"}
                THEN Tail(text) ELSE text
  IN  digits # <<>> /\ \A k \in 1..Len(digits) : IsDigit(digits[k])

\* C4: an insert that reaches insertRow with as many values as the table
\* has columns, in which the text for an int column is not wholly a base-10
\* integer, fails with a conversion error and leaves every table as it was.
C4_NonIntegerTextRejected ==
  [][\A i \in InsertInputs :
       (/\ lastQuery' = SpacedInsertText(i.name, i.vals)
        /\ i.name \in DOMAIN tables
        /\ Len(i.vals) = Len(tables[i.name].columns)
        /\ \E k \in 1..Len(i.vals) :
             /\ tables[i.name].columns[k].type = Word["int"]
             /\ ~IsBase10Integer(i.vals[k]))
       => /\ tables' = tables
          /\ output'.status = "error"
          /\ output'.exc \in {"invalid_argument", "out_of_range"}
    ]_vars

\* The statements of the input sets that name the table n, CREATE TABLE
\* apart.
StatementsNaming(n) ==
  {InsertText(i.name, i.vals) : i \in {j \in InsertInputs : j.name = n}}
  \cup {SpacedInsertText(i.name, i.vals) :
          i \in {j \in InsertInputs : j.name = n}}
  \cup {SelectWhereText(i.cols, i.name, i.col, i.op, i.lit) :
          i \in {j \in WhereInputs : j.name = n}}
  \cup {SelectText(Word["*"], n), DropText(n), DescribeText(n)}

\* The CREATE TABLE statements of the input sets that name the table n.
CreatesNaming(n) ==
  {CreateText(i.name, i.cols) : i \in {j \in CreateInputs : j.name = n}}

\* The INSERT statements in the documented form, which the parser refuses.
DocumentedInserts ==
  {InsertText(i.name, i.vals) : i \in InsertInputs}

C6_ErrorsLeaveStateUnchanged ==
  [][/\ output'.status # "uncaught"
     /\ output'.status = "error" => tables' = tables
     /\ lastQuery' = DropText(Text["missing"])
        => /\ output'.status = "error"
           /\ output'.what = "Table not found"
           /\ tables' = tables
    ]_vars

\* C6 witness: an insert whose value does not convert was reported as an
\* error on a table that holds a row.
C6_Witness ==
  /\ lastQuery = SpacedInsertText(Text["t"], <<Text["x"]>>)
  /\ Text["t"] \in DOMAIN tables
  /\ Len(tables[Text["t"]].rows) > 0
  /\ output.status = "error"
  /\ output.exc = "invalid_argument"

\* The columns a CREATE TABLE statement declaring cols gives its table.
Declared(cols) ==
  [k \in 1..Len(cols) |->
     [name |-> cols[k].name, type |-> toLower(cols[k].type)]]

\* C7: CREATE TABLE of a registered name fails with "Table already exists"
\* and leaves the registry and the existing table, columns and rows, as
\* they were.
C7_CreateExistingRejected ==
  [][\A i \in CreateInputs :
       (lastQuery' = CreateText(i.name, i.cols) /\ i.name \in DOMAIN tables)
       => /\ output'.status = "error"
          /\ output'.what = "Table already exists"
          /\ tables' = tables
    ]_vars

\* C7 witness: CREATE TABLE t (a int, b string) was refused while t is
\* registered with the single column a and holds a row.
C7_Witness ==
  /\ lastQuery = CreateText(Text["t"], ColsAB)
  /\ Text["t"] \in DOMAIN tables
  /\ tables[Text["t"]].columns = Declared(ColsA)
  /\ Len(tables[Text["t"]].rows) > 0
  /\ output.what = "Table already exists"

\* The lines DESCRIBE prints for the columns cols: a name and a type each.
DescribedLines(cols) ==
  [k \in 1..Len(cols) |-> <<cols[k].name, cols[k].type>>]

\* C8: a CREATE TABLE t (c1 ty1, c2 ty2, ...) of an unregistered name
\* registers t with exactly the declared columns in declaration order, no
\* later statement changes the columns of a registered table, and DESCRIBE t
\* prints exactly the columns of t in that order with their count.
C8_ColumnsInDeclarationOrder ==
  [][/\ \A i \in CreateInputs :
          (lastQuery' = CreateText(i.name, i.cols) /\ i.name \notin DOMAIN tables)
          => /\ output'.kind = "created"
             /\ i.name \in DOMAIN tables'
             /\ tables'[i.name].columns = Declared(i.cols)
     /\ \A n \in DOMAIN tables \cap DOMAIN tables' :
          tables'[n].columns = tables[n].columns
     /\ \A n \in DOMAIN tables :
          lastQuery' = DescribeText(n)
          => /\ output'.kind = "describe"
             /\ output'.rows = DescribedLines(tables[n].columns)
             /\ output'.count = Len(tables[n].columns)
    ]_vars

\* C8 witness: DESCRIBE ta has printed the columns b and a, in the order
\* CREATE TABLE ta (b STRING, a int) declared them, and the count 2.
C8_Witness ==
  /\ lastQuery = DescribeText(Text["ta"])
  /\ output.kind = "describe"
  /\ output.rows = << <<Text["b"], Word["string"]>>, <<Text["a"], Word["int"]>> >>
  /\ output.count = 2

\* names lists exactly the members of registered, each once, ascending.
IsSortedListing(names, registered) ==
  /\ Len(names) = Cardinality(registered)
  /\ {names[k] : k \in 1..Len(names)} = registered
  /\ \A j, k \in 1..Len(names) : j < k => StringLess(names[j], names[k])

MatchingIndices(rows, k, val) ==
  LET Matches(j) == rows[j + 1][k] = val
      F[j \in 0..Len(rows)] ==
        IF j = 0 THEN <<>>
        ELSE IF Matches(j - 1) THEN Append(F[j - 1], j - 1) ELSE F[j - 1]
  IN  F[Len(rows)]

\* The position of the column named col in cols.
ColumnPosition(cols, col) ==
  CHOOSE k \in 1..Len(cols) : cols[k].name = col

\* C10: after SELECT * FROM t WHERE col = literal, with col a column of t
\* and literal convertible under its type, the rows printed are exactly the
\* rows of t whose Value in col equals the converted literal, in storage
\* order; after SELECT * FROM t they are all rows of t.
C10_WhereEqualSelectsMatches ==
  /\ \A i \in WhereInputs :
       (/\ i.op = Word["="] /\ i.cols = Word["*"]
        /\ lastQuery = SelectWhereText(i.cols, i.name, i.col, i.op, i.lit)
        /\ i.name \in DOMAIN tables
        /\ \E k \in 1..Len(tables[i.name].columns) :
             /\ tables[i.name].columns[k].name = i.col
             /\ parseValue(i.lit, tables[i.name].columns[k].type).exc = "")
       => LET table   == tables[i.name]
              k       == ColumnPosition(table.columns, i.col)
              val     == parseValue(i.lit, table.columns[k].type).val
              indices == MatchingIndices(table.rows, k, val)
          IN  /\ output.kind = "select"
              /\ output.indices = indices
              /\ output.rows =
                   Rendered([j \in 1..Len(indices) |-> table.rows[indices[j] + 1]])
              /\ output.count = Len(indices)
  /\ \A n \in DOMAIN tables :
       lastQuery = SelectText(Word["*"], n)
       => /\ output.kind = "select"
          /\ output.indices = [j \in 1..Len(tables[n].rows) |-> j - 1]
          /\ output.rows = Rendered(tables[n].rows)

\* C10 witness: SELECT * FROM t WHERE a = 1 has printed the second of the
\* two rows of t and not the first.
C10_Witness ==
  /\ lastQuery = SelectWhereText(Word["*"], Text["t"], Text["a"], Word["="], Text["1"])
  /\ Text["t"] \in DOMAIN tables
  /\ Len(tables[Text["t"]].rows) = 2
  /\ output.kind = "select"
  /\ output.indices = <<1>>

\* The kind of Value that parseValue makes for a column of the given type.
KindOfType(type) ==
  IF type = Word["int"] THEN "int"
  ELSE IF type = Word["double"] THEN "double"
  ELSE IF type = Word["bool"] THEN "bool"
  ELSE "string"

\* Every row of the table has one Value per column, of the column's kind.
RowsMatchColumns(table) ==
  \A r \in 1..Len(table.rows) :
    /\ Len(table.rows[r]) = Len(table.columns)
    /\ \A k \in 1..Len(table.rows[r]) :
         k <= Len(table.columns)
         => table.rows[r][k].kind = KindOfType(table.columns[k].type)

\* C11: after any sequence of addColumn, insertRow(Row) and
\* insertRow(strings) on a Table, every stored row has as many Values as the
\* table has columns, each of the kind of its column's declared type.
C11_TableRowsMatchColumns ==
  RowsMatchColumns(tables[TheTable])

\* C12: in every reachable engine state the column names of each table are
\* pairwise distinct.
C12_ColumnNamesDistinct ==
  \A n \in DOMAIN tables :
    \A j, k \in 1..Len(tables[n].columns) :
      j # k => tables[n].columns[j].name # tables[n].columns[k].name

\* C13: while a table stays registered no call of executeQuery changes its
\* columns, and a call either leaves its rows as they are or appends one row
\* to them; the latter only as the success of an INSERT INTO that table.
C13_RowsAppendOnly ==
  [][\A n \in DOMAIN tables \cap DOMAIN tables' :
       /\ tables'[n].columns = tables[n].columns
       /\ \/ tables'[n].rows = tables[n].rows
          \/ /\ Len(tables'[n].rows) = Len(tables[n].rows) + 1
             /\ SubSeq(tables'[n].rows, 1, Len(tables[n].rows)) = tables[n].rows
             /\ lastQuery' \in InsertStatements
             /\ output'.kind = "inserted"
             /\ output'.table = n
    ]_vars

\* C13 witness: a second, different row has just been appended to t.
C13_Witness ==
  /\ Text["t"] \in DOMAIN tables
  /\ Len(tables[Text["t"]].rows) = 2
  /\ tables[Text["t"]].rows[1] # tables[Text["t"]].rows[2]
  /\ lastQuery \in InsertStatements
  /\ output.kind = "inserted"

\* C14: the tokens of every statement given to executeQuery have their
\* parentheses and commas isolated: no token longer than one character
\* begins with "(" or ends with "," or ")".
C14_PunctuationIsolated ==
  LET tokens == tokenize(lastQuery)
  IN  \A k \in 1..Len(tokens) :
        Len(tokens[k]) > 1
        => /\ Head(tokens[k]) # "("
           /\ tokens[k][Len(tokens[k])] \notin {",", ")"}

\* C15: an INSERT into t (a int, b string, c bool) whose first value is the
\* integer literal 2147483648 = 2^31 succeeds, and the Value stored in
\* column a prints as that literal.
C15_WideIntegerStored ==
  [][LET vals == <<Text["2147483648"], Text["Bob"], Text["true"]>>
     IN  (/\ lastQuery' = SpacedInsertText(Text["t"], vals)
          /\ Text["t"] \in DOMAIN tables)
         => /\ output'.kind = "inserted"
            /\ Len(tables'[Text["t"]].rows) = Len(tables[Text["t"]].rows) + 1
            /\ LET row == tables'[Text["t"]].rows[Len(tables'[Text["t"]].rows)]
               IN  row[1].kind = "int" /\ valueToString(row[1]) = vals[1]
    ]_vars

\* C16: when no line of the standard input is exit or quit, the run loop
\* has called executeQuery at most once per line read, and once a read has
\* met the end of the input the loop has stopped.
C16_BatchModeTerminates ==
  (\A k \in 1..Len(script) :
     toLower(trim(script[k])) \notin {Word["exit"], Word["quit"]})
  => /\ shell.executed <= pc
     /\ shell.failbit => ~shell.running


\* x comes before y in the natural order of their kind: integer magnitude,
\* lexicographic order of the character codes, false before true.
NaturallyBefore(x, y) ==
  IF x.kind = "string"
  THEN \E n \in 0..Len(x.v) :
         /\ n <= Len(y.v)
         /\ \A j \in 1..n : x.v[j] = y.v[j]
         /\ n < Len(y.v)
         /\ n < Len(x.v) => Ascii[x.v[n + 1]] < Ascii[y.v[n + 1]]
  ELSE IF x.kind = "bool" THEN ~x.v /\ y.v
  ELSE x.v < y.v

\* x stands in relation op to y.
InRelation(op, x, y) ==
  IF op = Word["="] THEN x.v = y.v
  ELSE IF op = Word["!="] THEN x.v # y.v
  ELSE IF op = Word["<"] THEN NaturallyBefore(x, y)
  ELSE IF op = Word[">"] THEN NaturallyBefore(y, x)
  ELSE IF op = Word["<="] THEN NaturallyBefore(x, y) \/ x.v = y.v
  ELSE NaturallyBefore(y, x) \/ x.v = y.v

\* The 0-based indices, ascending, of the rows whose Value in column k
\* stands in relation op to val.
RelatedIndices(rows, k, op, val) ==
  LET F[j \in 0..Len(rows)] ==
        IF j = 0 THEN <<>>
        ELSE IF InRelation(op, rows[j][k], val)
        THEN Append(F[j - 1], j - 1) ELSE F[j - 1]
  IN  F[Len(rows)]

\* C17: after SELECT * FROM t WHERE col op literal, with op one of = != <
\* > <= >= and col a column of t, the indices selected are, in ascending
\* order, exactly those of the rows whose Value in col stands in relation op
\* to the literal converted under col's type, by the natural order of that
\* type.
C17_ComparisonSelectsRelated ==
  \A q \in Comparisons :
    (/\ lastQuery = ComparisonText(q)
     /\ Text["t"] \in DOMAIN tables
     /\ \E k \in 1..Len(tables[Text["t"]].columns) :
          tables[Text["t"]].columns[k].name = q.col)
    => LET table == tables[Text["t"]]
           k     == ColumnPosition(table.columns, q.col)
           val   == parseValue(q.lit, table.columns[k].type).val
       IN  /\ output.kind = "select"
           /\ output.indices = RelatedIndices(table.rows, k, q.op, val)

\* C17 witness: SELECT * FROM t WHERE b < Bob has selected Alice's row, the
\* second of two, and SELECT * FROM t WHERE c <= false the row holding false.
C17_Witness ==
  /\ Text["t"] \in DOMAIN tables
  /\ Len(tables[Text["t"]].rows) = 2
  /\ output.kind = "select"
  /\ output.indices = <<1>>
  /\ \/ lastQuery = SelectWhereText(Word["*"], Text["t"], Text["b"], Word["<"],
                                    Text["Bob"])
     \/ lastQuery = SelectWhereText(Word["*"], Text["t"], Text["c"], Word["<="],
                                    Text["false"])


C19_ShortWhereSelectsAll ==
  (lastQuery \in ShortWheres /\ Text["t"] \in DOMAIN tables)
  => /\ parse(lastQuery).where_clause = <<>>
     /\ output.status = "ok"
     /\ output.kind = "select"
     /\ output.indices = [j \in 1..Len(tables[Text["t"]].rows) |-> j - 1]
     /\ output.rows = Rendered(tables[Text["t"]].rows)

\* C19 witness: SELECT * FROM t WHERE a > has selected both rows of t, one
\* of which holds a = 1.
C19_Witness ==
  /\ lastQuery = Join(<<SelectText(Word["*"], Text["t"]), Text["WHERE"],
                        Text["a"], Word[">"]>>)
  /\ Text["t"] \in DOMAIN tables
  /\ Len(tables[Text["t"]].rows) = 2
  /\ output.indices = <<0, 1>>
  /\ \E r \in 1..2 : tables[Text["t"]].rows[r][1] = IntValue(1)


\* C20: after SELECT * FROM t WHERE zz op literal, t having no column zz,
\* no error is reported and no row is selected, whatever op and literal are.
C20_MissingColumnSelectsNone ==
  \A q \in Comparisons :
    (/\ lastQuery = ComparisonText(q)
     /\ Text["t"] \in DOMAIN tables
     /\ \A k \in 1..Len(tables[Text["t"]].columns) :
          tables[Text["t"]].columns[k].name # q.col)
    => /\ output.status = "ok"
       /\ output.kind = "select"
       /\ output.indices = <<>>
       /\ output.rows = <<>>
       /\ output.count = 0

\* C20 witness: SELECT * FROM t WHERE zz = x has selected none of the two
\* rows of t, the literal x being no integer.
C20_Witness ==
  /\ lastQuery = SelectWhereText(Word["*"], Text["t"], Text["zz"], Word["="],
                                 Text["x"])
  /\ Text["t"] \in DOMAIN tables
  /\ Len(tables[Text["t"]].rows) = 2
  /\ output.status = "ok"
  /\ output.indices = <<>>


\* The positions, in the column list cols, of the columns a SELECT with the
\* projection list names shows: all of them when the list is empty or holds
\* *, otherwise those of the listed names that cols has, in list order.
ProjectedPositions(cols, names) ==
  IF names = <<>> \/ \E i \in 1..Len(names) : names[i] = Word["*"]
  THEN [k \in 1..Len(cols) |-> k]
  ELSE LET Known(n) == \E k \in 1..Len(cols) : cols[k].name = n
           known    == SelectSeq(names, Known)
       IN  [c \in 1..Len(known) |-> ColumnPosition(cols, known[c])]

\* C21: after SELECT names FROM t, with or without WHERE a > 1, no error is
\* reported; the headers are all column names of t in declared order when
\* names is empty or holds *, otherwise the listed names that t has; the
\* rows shown are the selected rows in storage order, cut to those columns;
\* the count is the number of selected rows; without WHERE every row is
\* selected.
C21_ProjectionShowsKnownColumns ==
  \A p \in FormInputs.projections :
    \A where \in BOOLEAN :
      (/\ where \/ p # <<>>
       /\ lastQuery = IF where
                      THEN SelectWhereText(CommaList(p), Text["t"], Text["a"],
                                           Word[">"], Text["1"])
                      ELSE SelectText(CommaList(p), Text["t"])
       /\ Text["t"] \in DOMAIN tables)
      => LET table == tables[Text["t"]]
             pos   == ProjectedPositions(table.columns, p)
             sel   == output.indices
         IN  /\ output.status = "ok"
             /\ output.kind = "select"
             /\ \A j \in 1..Len(sel) :
                  /\ sel[j] \in 0..(Len(table.rows) - 1)
                  /\ j > 1 => sel[j - 1] < sel[j]
             /\ ~where => Len(sel) = Len(table.rows)
             /\ output.headers =
                  [c \in 1..Len(pos) |-> table.columns[pos[c]].name]
             /\ output.rows =
                  [j \in 1..Len(sel) |->
                     [c \in 1..Len(pos) |->
                        valueToString(table.rows[sel[j] + 1][pos[c]])]]
             /\ output.count = Len(sel)

\* C21 witness: SELECT b, zz, a FROM t has shown the columns b and a of
\* the two rows of t (a int, b string), and SELECT a, * FROM t WHERE a > 1
\* both columns of its second row.
C21_Witness ==
  /\ Text["t"] \in DOMAIN tables
  /\ Len(tables[Text["t"]].rows) = 2
  /\ \/ /\ lastQuery = SelectText(CommaList(<<Text["b"], Text["zz"], Text["a"]>>),
                                   Text["t"])
        /\ output.headers = <<Text["b"], Text["a"]>>
        /\ output.rows = << <<Text["Alice"], Text["1"]>>,
                            <<Text["Alice"], Text["2"]>> >>
     \/ /\ lastQuery = SelectWhereText(CommaList(<<Text["a"], Word["*"]>>),
                                        Text["t"], Text["a"], Word[">"], Text["1"])
        /\ output.headers = <<Text["a"], Text["b"]>>
        /\ output.rows = << <<Text["2"], Text["Alice"]>> >>


\* The statement with these tokens is none the parser recognizes: it is
\* empty, or its first token is no statement keyword, or the keyword lacks
\* the word that has to follow it.
IsUnrecognized(tokens) ==
  \/ tokens = <<>>
  \/ LET first  == toLower(tokens[1])
         second == IF Len(tokens) > 1 THEN toLower(tokens[2]) ELSE <<>>
     IN  \/ first \notin {Word["create"], Word["insert"], Word["select"],
                          Word["drop"], Word["show"], Word["describe"],
                          Word["desc"]}
         \/ first \in {Word["create"], Word["drop"]} /\ second # Word["table"]
         \/ first = Word["show"] /\ second # Word["tables"]

C23_LoneColumnNamesSkipped ==
  [][\A cols \in FormInputs.columns :
       \A closed \in BOOLEAN :
         (/\ lastQuery' = SpacedCreateText(Text["t"], cols, closed)
          /\ Text["t"] \notin DOMAIN tables)
         => /\ output'.status = "ok"
            /\ output'.kind = "created"
            /\ Text["t"] \in DOMAIN tables'
            /\ tables'[Text["t"]].columns =
                 SelectSeq(cols, LAMBDA c : c.type # <<>>)
            /\ tables'[Text["t"]].rows = <<>>
    ]_vars

\* C23 witness: CREATE TABLE t ( a , b int ) has created t with the one
\* column b, and CREATE TABLE t ( a with no column.
C23_Witness ==
  /\ output.kind = "created"
  /\ Text["t"] \in DOMAIN tables
  /\ \/ /\ lastQuery = SpacedCreateText(Text["t"],
                            <<Col(Text["a"], <<>>), Col(Text["b"], Word["int"])>>,
                            TRUE)
        /\ tables[Text["t"]].columns = <<Col(Text["b"], Word["int"])>>
     \/ /\ lastQuery = SpacedCreateText(Text["t"], <<Col(Text["a"], <<>>)>>, FALSE)
        /\ tables[Text["t"]].columns = <<>>


\* C24: in every state of the engine that executeQuery calls lead to, each
\* row of each table has one Value per column of the table, of the kind the
\* column's declared type selects: int, double, bool, and string for every
\* other type.
C24_EngineRowsMatchColumns ==
  \A n \in DOMAIN tables : RowsMatchColumns(tables[n])

\* C24 witness: t (a double, b bool, c text) holds the row made of 2.5,
\* true and x.
C24_Witness ==
  /\ Text["t"] \in DOMAIN tables
  /\ [k \in 1..Len(tables[Text["t"]].columns) |->
        tables[Text["t"]].columns[k].type]
       = <<Word["double"], Word["bool"], Text["text"]>>
  /\ Len(tables[Text["t"]].rows) > 0
  /\ [k \in 1..3 |-> tables[Text["t"]].rows[1][k].kind]
       = <<"double", "bool", "string">>
  /\ Rendered(tables[Text["t"]].rows)[1][2] = Text["true"]


\* The statements of the input sets that name the table n, for each of the
\* table names in use.
StatementsOn ==
  [n \in {Text["t"], Text["u"], Text["ta"], Text["missing"]} |->
     StatementsNaming(n) \cup CreatesNaming(n)]

\* C25: a statement that names the table n, CREATE TABLE, INSERT, SELECT,
\* DESCRIBE or DROP TABLE, whether it succeeds or fails, leaves every other
\* table registered as it was, columns and rows, and registers no other
\* name.
C25_OtherTablesUntouched ==
  [][\A n \in DOMAIN StatementsOn :
       lastQuery' \in StatementsOn[n]
       => \A m \in (DOMAIN tables \cup DOMAIN tables') \ {n} :
            /\ m \in DOMAIN tables
            /\ m \in DOMAIN tables'
            /\ tables'[m] = tables[m]
    ]_vars

\* C25 witness: DROP TABLE t has succeeded while u, which holds a row, and
\* ta are registered.
C25_Witness ==
  /\ lastQuery = DropText(Text["t"])
  /\ output.kind = "dropped"
  /\ Text["t"] \notin DOMAIN tables
  /\ Text["u"] \in DOMAIN tables
  /\ Len(tables[Text["u"]].rows) > 0
  /\ Text["ta"] \in DOMAIN tables


\* C26: a CREATE TABLE t (...) that follows a successful DROP TABLE t, no
\* other CREATE TABLE t having succeeded in between, reports success and
\* registers t with the columns of this statement and with no row.
C26_RecreatedTableIsFresh ==
  [][\A cols \in {ColsA, ColsAB} :
       (/\ Text["t"] \in dropped
        /\ lastQuery' = CreateText(Text["t"], cols))
       => /\ output'.status = "ok"
          /\ output'.kind = "created"
          /\ Text["t"] \in DOMAIN tables'
          /\ tables'[Text["t"]].columns = Declared(cols)
          /\ tables'[Text["t"]].rows = <<>>
          /\ DOMAIN tables'[Text["t"]].column_index_map
               = {cols[k].name : k \in 1..Len(cols)}
    ]_vars

\* C26 witness: t (a int, b string) was created, given the row (1, Alice)
\* and dropped, and CREATE TABLE t (a int) has then registered t with the
\* one column a and no row.
C26_Witness ==
  /\ script = <<CreateText(Text["t"], ColsAB),
                SpacedInsertText(Text["t"], <<Text["1"], Text["Alice"]>>),
                DropText(Text["t"]),
                CreateText(Text["t"], ColsA)>>
  /\ pc = 4
  /\ output.kind = "created"
  /\ tables[Text["t"]].columns = Declared(ColsA)
  /\ tables[Text["t"]].rows = <<>>


\* C27: SELECT * FROM t WHERE a = x, a being an int column of t and x no
\* integer, reports the failed conversion whatever rows t holds, none
\* included.
C27_ConversionErrorWhateverRows ==
  (/\ lastQuery = SelectWhereText(Word["*"], Text["t"], Text["a"], Word["="],
                                  Text["x"])
   /\ Text["t"] \in DOMAIN tables
   /\ \E k \in 1..Len(tables[Text["t"]].columns) :
        tables[Text["t"]].columns[k] = Col(Text["a"], Word["int"]))
  => /\ output.status = "error"
     /\ output.exc = "invalid_argument"


\* C28: SELECT * FROM t WHERE b = 'Alice' on t (a int, b string) selects
\* every row that INSERT INTO t VALUES ( 2, 'Alice' ) has stored, those
\* being the rows of t that hold 2 in column a.
C28_QuotedLiteralSelectsQuotedInsert ==
  (/\ lastQuery = SelectWhereText(Word["*"], Text["t"], Text["b"], Word["="],
                                  Text["'Alice'"])
   /\ Text["t"] \in DOMAIN tables
   /\ tables[Text["t"]].columns = Declared(ColsAB))
  => /\ output.kind = "select"
     /\ \A r \in 1..Len(tables[Text["t"]].rows) :
          tables[Text["t"]].rows[r][1] = IntValue(2)
          => \E j \in 1..Len(output.indices) : output.indices[j] = r - 1


\* C29: after SELECT * FROM t WHERE col op literal, col being a column of t,
\* op none of = != < > <= >= and the literal converting under col's type,
\* no error is reported and no row is selected.
C29_UnknownOperatorSelectsNone ==
  \A q \in FormInputs.conditions :
    (/\ q.op \notin {Word["="], Word["!="], Word["<"], Word[">"], Word["<="],
                     Word[">="]}
     /\ lastQuery = SelectWhereText(Word["*"], Text["t"], q.col, q.op, q.lit)
     /\ Text["t"] \in DOMAIN tables
     /\ \E k \in 1..Len(tables[Text["t"]].columns) :
          /\ tables[Text["t"]].columns[k].name = q.col
          /\ parseValue(q.lit, tables[Text["t"]].columns[k].type).exc = "")
    => /\ output.status = "ok"
       /\ output.kind = "select"
       /\ output.indices = <<>>
       /\ output.rows = <<>>
       /\ output.count = 0

\* C29 witness: SELECT * FROM t WHERE a <> 1 has selected no row of t,
\* which holds 1 in column a of one row and 2 in that of the other.
C29_Witness ==
  /\ lastQuery = SelectWhereText(Word["*"], Text["t"], Text["a"], Text["<>"],
                                 Text["1"])
  /\ Text["t"] \in DOMAIN tables
  /\ tables[Text["t"]].columns = Declared(ColsAB)
  /\ {tables[Text["t"]].rows[r][1] : r \in 1..Len(tables[Text["t"]].rows)}
       = {IntValue(1), IntValue(2)}
  /\ output.status = "ok"
  /\ output.indices = <<>>


\* C30: a call of executeQuery with a statement closed by a semicolon
\* writes what the call with the statement alone would write in the same
\* state, and leaves the same tables: names, columns with their declared
\* types, and rows.
C30_TrailingSemicolonInsignificant ==
  [][\A s \in SemicolonFree :
       lastQuery' = s \o <<";">>
       => /\ output' = executeQuery(tables, s).output
          /\ tables' = executeQuery(tables, s).tables
    ]_vars

====
